---- MODULE Spec2Model ----
(***************************************************************************)
(* Leaderboard view layer: the rank engine (computeRanks, App.js) and the  *)
(* what-if projector (calculateWhatIf, utils/calculateWhatIf.js).          *)
(*                                                                         *)
(* JavaScript values that may be null are tagged records: Null, a string   *)
(* Str(s), an array Arr(items).  A player is the record                    *)
(* [email |-> e, score |-> n]; the players argument is always an array and *)
(* is a plain sequence.  A Map is the sequence of its entries in insertion *)
(* order.                                                                  *)
(*                                                                         *)
(* The view (App, App.js) is modelled as a state machine: the useWebSocket *)
(* hook with its sockets and reconnect timers, the initial fetch, the      *)
(* update handler and the persisted selection.  A socket is its            *)
(* readyState; sockets are numbered in the order of their creation, and 0  *)
(* stands for a null ref.  State setters of an unmounted component do      *)
(* nothing.                                                                *)
(***************************************************************************)
EXTENDS Integers, Sequences, FiniteSets, TLC

VARIABLES players, selectedPlayer, myAnswers, rankMap, whatIf, pc

\* What the last call of computeRanks and of calculateWhatIf left in the
\* bindings it updates (scoreCounts, rankMap and currentRank; bestCaseRank,
\* currentRank and worstCaseRank).
VARIABLE locals

\* useWebSocket: the component is mounted; every WebSocket created so far;
\* wsRef.current; reconnectTimeoutRef.current; the timers not yet fired or
\* cleared; the isConnected state; the closures the network has caused; for
\* every socket, the selectedEmail its onMessage callback closes over (null
\* for a callback that reads no selection).
VARIABLES mounted, sockets, wsRef, reconnectTimeoutRef, timers, isConnected, closes,
          handlerEmail

\* App: the state set by snapshots and by the initial fetch.
VARIABLES questions, trends, events, error, loading, fetchState

\* App: the selection, the browser's localStorage, and the answer lookups
\* in flight (how many per identity) with, for each, the code that awaits it.
VARIABLES selectedEmail, localStorage, answersLoading, answerRequests, answerAwaits

\* useAuth: the five STORAGE_KEYS of localStorage; the user, isLoading and
\* error states (authUser, authError); where the page and its mount effect
\* are; the code parameter of the page's URL; Date.now(); the signIn() calls
\* suspended at their await; window.location.href has been assigned and the
\* document is about to be replaced.
VARIABLES authStorage, authUser, isLoading, authError, authPc, urlCode, now,
          signInAwaits, leaving

\* The kind of the last step taken by the view.
VARIABLE lastOp

fnVars == <<selectedPlayer, rankMap, whatIf, pc, locals>>

hookVars ==
    <<mounted, sockets, wsRef, reconnectTimeoutRef, timers, isConnected, closes, handlerEmail>>

dataVars == <<players, questions, trends, events>>

fetchVars == <<error, loading, fetchState>>

selectVars ==
    <<selectedEmail, localStorage, answersLoading, answerRequests, answerAwaits, myAnswers>>

authVars ==
    <<authStorage, authUser, isLoading, authError, authPc, urlCode, now, signInAwaits, leaving>>

viewVars ==
    <<mounted, sockets, wsRef, reconnectTimeoutRef, timers, isConnected, closes, handlerEmail,
      questions, trends, events, error, loading, fetchState,
      selectedEmail, localStorage, answersLoading, answerRequests, answerAwaits, lastOp,
      authStorage, authUser, isLoading, authError, authPc, urlCode, now, signInAwaits, leaving>>

vars ==
    <<players, selectedPlayer, myAnswers, rankMap, whatIf, pc, locals,
      mounted, sockets, wsRef, reconnectTimeoutRef, timers, isConnected, closes, handlerEmail,
      questions, trends, events, error, loading, fetchState,
      selectedEmail, localStorage, answersLoading, answerRequests, answerAwaits, lastOp,
      authStorage, authUser, isLoading, authError, authPc, urlCode, now, signInAwaits, leaving>>

-----------------------------------------------------------------------------
(* Bounds of the checked inputs.                                           *)

MaxRankPlayers == 4

MaxPlayers == 2

MaxScore == 2

MaxAnswers == 2

\* Closures caused by the network (a failed attempt or a dropped channel).
MaxCloses == 2

\* Entries of the activity feed the checked runs build up.
MaxFeed == 3

\* Answer lookups in flight at once.
MaxInFlight == 3

MaxSockets == 3

\* Closures caused by the network, and lookups in flight, in the view whose
\* handler depends on the selection.
MaxFocusedCloses == 1

MaxFocusedInFlight == 2

-----------------------------------------------------------------------------
(* JavaScript values.                                                      *)

Null == [kind |-> "null"]

Str(s) == [kind |-> "string", val |-> s]

Arr(items) == [kind |-> "array", items |-> items]

\* A missing property.
Undefined == [kind |-> "undefined"]

\* A plain object, as the set of its <<key, value>> entries.
Obj(entries) == [kind |-> "object", entries |-> entries]

\* ToBoolean: undefined, null and the empty string are falsy; objects,
\* arrays (the empty one too) and non-empty strings are truthy.
Truthy(v) ==
    CASE v = Null -> FALSE
      [] v = Undefined -> FALSE
      [] v = Str("") -> FALSE
      [] OTHER -> TRUE

\* Identities of the players, by position in the list.
EmailNames ==
    << "p1@test.com", "p2@test.com", "p3@test.com", "p4@test.com",
       "p5@test.com", "p6@test.com", "p7@test.com", "p8@test.com" >>

player(email, score) == [email |-> email, score |-> score]

answer(official, user) == [official_answer |-> official, user_answer |-> user]

-----------------------------------------------------------------------------
(* Map, as the sequence of its entries in insertion order.                 *)

MapHas(m, k) == \E i \in 1..Len(m) : m[i].key = k

MapGet(m, k) == m[CHOOSE i \in 1..Len(m) : m[i].key = k].value

\* Map.prototype.set: an existing key keeps its place, a new key is appended.
MapSet(m, k, v) ==
    IF MapHas(m, k)
    THEN [i \in 1..Len(m) |-> IF m[i].key = k THEN [key |-> k, value |-> v] ELSE m[i]]
    ELSE Append(m, [key |-> k, value |-> v])

-----------------------------------------------------------------------------
(* computeRanks                                                            *)

\* Before any call no binding of either function exists.
NoLocals == [computeRanks |-> Undefined, calculateWhatIf |-> Undefined]

\* A scoreCounts declared outside the function: a call goes on counting in
\* the object the call before it filled.
ScoreCountsKept ==
    IF locals.computeRanks = Undefined THEN [k \in {} |-> 0]
    ELSE locals.computeRanks.scoreCounts

\* const scoreCounts = {}: declared in the body, so every call starts with
\* an empty object of its own, whatever an earlier call has left.
ScoreCountsAtEntry == [k \in {} |-> 0]

\* let currentRank = 1
CurrentRankAtEntry == 1

\* players.forEach(p => scoreCounts[p.score] = (scoreCounts[p.score] || 0) + 1)
\* The object scoreCounts is the function from the scores seen so far to
\* their counts.
RECURSIVE ScoreCountsFrom(_, _, _)
ScoreCountsFrom(ps, i, scoreCounts) ==
    IF i > Len(ps) THEN scoreCounts
    ELSE LET s == ps[i].score
             old == IF s \in DOMAIN scoreCounts THEN scoreCounts[s] ELSE 0
         IN  ScoreCountsFrom(ps, i + 1,
                 [k \in (DOMAIN scoreCounts) \cup {s} |->
                     IF k = s THEN old + 1 ELSE scoreCounts[k]])

\* A count that does not accumulate (scoreCounts[p.score] = 1).
ScoreCountsNoAccumulate(ps) == [k \in { ps[i].score : i \in 1..Len(ps) } |-> 1]

ScoreCounts(ps) == ScoreCountsFrom(ps, 1, ScoreCountsAtEntry)

\* [...new Set(players.map(p => p.score))]: the distinct scores in order of
\* first occurrence.
RECURSIVE SetOfScoresFrom(_, _, _)
SetOfScoresFrom(ps, i, acc) ==
    IF i > Len(ps) THEN acc
    ELSE LET s == ps[i].score
         IN  SetOfScoresFrom(ps, i + 1,
                 IF \E j \in 1..Len(acc) : acc[j] = s THEN acc ELSE Append(acc, s))

\* The scores without the Set (players.map(p => p.score)).
ScoresNoDedupe(ps) == [i \in 1..Len(ps) |-> ps[i].score]

SetOfScores(ps) == SetOfScoresFrom(ps, 1, <<>>)

\* A comparator that sorts ascending (a - b instead of b - a).
CompareAsc(a, b) == a - b

\* The comparator (a, b) => b - a: a is placed before b when it is negative.
CompareDesc(a, b) == b - a

\* Array.prototype.sort with the comparator above, as an insertion sort.
RECURSIVE InsertSorted(_, _)
InsertSorted(sorted, x) ==
    IF sorted = <<>> THEN <<x>>
    ELSE IF CompareDesc(x, Head(sorted)) < 0
         THEN <<x>> \o sorted
         ELSE <<Head(sorted)>> \o InsertSorted(Tail(sorted), x)

RECURSIVE SortFrom(_, _, _)
SortFrom(xs, i, sorted) ==
    IF i > Len(xs) THEN sorted
    ELSE SortFrom(xs, i + 1, InsertSorted(sorted, xs[i]))

UniqueScores(ps) == SortFrom(SetOfScores(ps), 1, <<>>)

\* A walk that numbers the score groups one after the other (currentRank += 1).
RECURSIVE RankWalkDense(_, _, _, _, _)
RankWalkDense(uniqueScores, scoreCounts, i, currentRank, m) ==
    IF i > Len(uniqueScores) THEN m
    ELSE LET score == uniqueScores[i]
             count == scoreCounts[score]
         IN  RankWalkDense(uniqueScores, scoreCounts, i + 1, currentRank + 1,
                 MapSet(m, score, [rank |-> currentRank, tieCount |-> count]))

\* uniqueScores.forEach(score => { rankMap.set(score, {rank: currentRank,
\* tieCount: count}); currentRank += count })
RECURSIVE RankWalk(_, _, _, _, _)
RankWalk(uniqueScores, scoreCounts, i, currentRank, m) ==
    IF i > Len(uniqueScores) THEN m
    ELSE LET score == uniqueScores[i]
             count == scoreCounts[score]
         IN  RankWalk(uniqueScores, scoreCounts, i + 1, currentRank + count,
                 MapSet(m, score, [rank |-> currentRank, tieCount |-> count]))

computeRanks(ps) ==
    RankWalk(UniqueScores(ps), ScoreCounts(ps), 1, CurrentRankAtEntry, <<>>)

\* scoreCounts, rankMap and currentRank when computeRanks(ps) returns the
\* map m: currentRank has grown by the count of every entry set.
LocalsAfterComputeRanks(ps, m) ==
    LET currentRankAfter[i \in 0..Len(m)] ==
            IF i = 0 THEN CurrentRankAtEntry
            ELSE currentRankAfter[i - 1] + m[i].value.tieCount
    IN  [ scoreCounts |-> ScoreCounts(ps),
          rankMap     |-> m,
          currentRank |-> currentRankAfter[Len(m)] ]

\* The arrays a call can reach, by the name that holds them, after a call of
\* an Array method: forEach and for...of read their receiver; map, filter
\* and the spread of a Set give a new array and leave the receiver as it
\* was; sort orders the receiver itself.
ArrayCall(store, on, method, gives, items) ==
    CASE method \in {"forEach", "for...of"} -> store
      [] method \in {"map", "filter", "spread of Set"} ->
            [n \in (DOMAIN store) \cup {gives} |-> IF n = gives THEN items ELSE store[n]]
      [] method = "sort" ->
            [n \in DOMAIN store |->
                IF n = on THEN SortFrom(store[on], 1, <<>>) ELSE store[n]]

\* The players argument after computeRanks(players): forEach and map are
\* called on it, and sort on the array spread from the Set.
PlayersAfterComputeRanks(ps) ==
    LET s0 == [n \in {"players"} |-> ps]
        s1 == ArrayCall(s0, "players", "forEach", "", <<>>)
        s2 == ArrayCall(s1, "players", "map", "scores", [i \in 1..Len(ps) |-> ps[i].score])
        s3 == ArrayCall(s2, "scores", "spread of Set", "uniqueScores", SetOfScores(ps))
        s4 == ArrayCall(s3, "uniqueScores", "sort", "", <<>>)
    IN  s4["players"]

-----------------------------------------------------------------------------
(* calculateWhatIf                                                         *)

\* let bestCaseRank = 1; let currentRank = 1; let worstCaseRank = 1: each
\* declared in the body, before its loop.
BestCaseRankAtEntry == 1

WhatIfCurrentRankAtEntry == 1

WorstCaseRankAtEntry == 1

\* A guard that forgets the absent selected player.
InvalidInputNoSelected(sel, ps, answers) == ~Truthy(answers) \/ Len(ps) = 0

\* A guard that forgets the empty player list.
InvalidInputNoLength(sel, ps, answers) == ~Truthy(sel) \/ ~Truthy(answers)

\* !selectedPlayer || !myAnswers || !players.length
InvalidInput(sel, ps, answers) ==
    \/ ~Truthy(sel)
    \/ ~Truthy(answers)
    \/ Len(ps) = 0

\* A filter that forgets the user's answer (a => !a.official_answer).
IsUnansweredNoUser(a) == ~Truthy(a.official_answer)

\* a => !a.official_answer && a.user_answer
IsUnanswered(a) == ~Truthy(a.official_answer) /\ Truthy(a.user_answer)

\* myAnswers.filter(...)
RECURSIVE FilterUnanswered(_, _, _)
FilterUnanswered(items, i, acc) ==
    IF i > Len(items) THEN acc
    ELSE FilterUnanswered(items, i + 1,
             IF IsUnanswered(items[i]) THEN Append(acc, items[i]) ELSE acc)

\* Comparisons with >= instead of >, and one without the self-exclusion.
BestCaseAheadOrTied(p, sel, bestCaseScore) ==
    p.email # sel.email /\ p.score >= bestCaseScore

CurrentAheadOrTied(p, sel, currentScore) ==
    p.email # sel.email /\ p.score >= currentScore

WorstCaseAheadOrTied(p, sel, potentialPoints, worstCaseScore) ==
    p.email # sel.email /\ p.score + potentialPoints >= worstCaseScore

WorstCaseAheadWithSelf(p, sel, potentialPoints, worstCaseScore) ==
    p.score + potentialPoints > worstCaseScore

\* A worst case that takes the points away from the others, and a current
\* comparison without the self-exclusion.
WorstCaseAheadLosing(p, sel, potentialPoints, worstCaseScore) ==
    p.email # sel.email /\ p.score - potentialPoints > worstCaseScore

CurrentAheadWithSelf(p, sel, currentScore) == p.score > currentScore

\* A best case that forgets the current score.
BestCaseScoreGainOnly(currentScore, potentialPoints) == potentialPoints

\* const bestCaseScore = currentScore + potentialPoints
BestCaseScore(currentScore, potentialPoints) == currentScore + potentialPoints

\* const worstCaseScore = currentScore
WorstCaseScore(currentScore) == currentScore

\* p.email !== selectedPlayer.email && p.score > bestCaseScore
BestCaseAhead(p, sel, bestCaseScore) ==
    p.email # sel.email /\ p.score > bestCaseScore

\* p.email !== selectedPlayer.email && p.score > currentScore
CurrentAhead(p, sel, currentScore) ==
    p.email # sel.email /\ p.score > currentScore

\* p.email !== selectedPlayer.email, then
\* otherBestScore = p.score + potentialPoints; otherBestScore > worstCaseScore
WorstCaseAhead(p, sel, potentialPoints, worstCaseScore) ==
    /\ p.email # sel.email
    /\ LET otherBestScore == p.score + potentialPoints
       IN  otherBestScore > worstCaseScore

RECURSIVE BestCaseLoop(_, _, _, _, _)
BestCaseLoop(ps, sel, bestCaseScore, i, bestCaseRank) ==
    IF i > Len(ps) THEN bestCaseRank
    ELSE BestCaseLoop(ps, sel, bestCaseScore, i + 1,
             IF BestCaseAhead(ps[i], sel, bestCaseScore)
             THEN bestCaseRank + 1 ELSE bestCaseRank)

RECURSIVE CurrentLoop(_, _, _, _, _)
CurrentLoop(ps, sel, currentScore, i, currentRank) ==
    IF i > Len(ps) THEN currentRank
    ELSE CurrentLoop(ps, sel, currentScore, i + 1,
             IF CurrentAhead(ps[i], sel, currentScore)
             THEN currentRank + 1 ELSE currentRank)

RECURSIVE WorstCaseLoop(_, _, _, _, _, _)
WorstCaseLoop(ps, sel, potentialPoints, worstCaseScore, i, worstCaseRank) ==
    IF i > Len(ps) THEN worstCaseRank
    ELSE WorstCaseLoop(ps, sel, potentialPoints, worstCaseScore, i + 1,
             IF WorstCaseAhead(ps[i], sel, potentialPoints, worstCaseScore)
             THEN worstCaseRank + 1 ELSE worstCaseRank)

\* The returned object.
WhatIfResult(sel, ps, unansweredQuestions) ==
    LET potentialPoints == Len(unansweredQuestions)
        currentScore == sel.score
        bestCaseScore == BestCaseScore(currentScore, potentialPoints)
        worstCaseScore == WorstCaseScore(currentScore)
    IN  [ unansweredCount |-> Len(unansweredQuestions),
          potentialPoints |-> potentialPoints,
          currentScore    |-> currentScore,
          bestCaseScore   |-> bestCaseScore,
          worstCaseScore  |-> worstCaseScore,
          currentRank     |-> CurrentLoop(ps, sel, currentScore, 1, WhatIfCurrentRankAtEntry),
          bestCaseRank    |-> BestCaseLoop(ps, sel, bestCaseScore, 1, BestCaseRankAtEntry),
          worstCaseRank   |-> WorstCaseLoop(ps, sel, potentialPoints, worstCaseScore, 1,
                                            WorstCaseRankAtEntry),
          totalPlayers    |-> Len(ps) ]

\* What a call that throws leaves in place of a result: reading a property
\* of null or undefined is a TypeError.
TypeError == [kind |-> "TypeError"]

\* Past the guard the function reads selectedPlayer.score and calls
\* myAnswers.filter.
calculateWhatIf(sel, ps, answers) ==
    IF InvalidInput(sel, ps, answers) THEN Null
    ELSE IF sel \in {Null, Undefined} \/ answers \in {Null, Undefined} THEN TypeError
    ELSE LET unansweredQuestions == FilterUnanswered(answers.items, 1, <<>>)
         IN  IF Len(unansweredQuestions) = 0 THEN Null
             ELSE WhatIfResult(sel, ps, unansweredQuestions)

\* bestCaseRank, currentRank and worstCaseRank when the call returns
\* result: a call that returns null or throws has not declared them.
LocalsAfterCalculateWhatIf(result) ==
    IF result \in {Null, TypeError} THEN locals.calculateWhatIf
    ELSE [ bestCaseRank  |-> result.bestCaseRank,
           currentRank   |-> result.currentRank,
           worstCaseRank |-> result.worstCaseRank ]

\* The myAnswers argument after calculateWhatIf: filter is called on it.
AnswersAfterCalculateWhatIf(answers) ==
    IF ~Truthy(answers) THEN answers
    ELSE LET s0 == [n \in {"myAnswers"} |-> answers.items]
             s1 == ArrayCall(s0, "myAnswers", "filter", "unansweredQuestions",
                             FilterUnanswered(answers.items, 1, <<>>))
         IN  Arr(s1["myAnswers"])

\* The players argument after calculateWhatIf: the three loops read it.
PlayersAfterCalculateWhatIf(ps) ==
    LET s0 == [n \in {"players"} |-> ps]
        s1 == ArrayCall(s0, "players", "for...of", "", <<>>)
        s2 == ArrayCall(s1, "players", "for...of", "", <<>>)
        s3 == ArrayCall(s2, "players", "for...of", "", <<>>)
    IN  s3["players"]

-----------------------------------------------------------------------------
(* Inputs.                                                                 *)

SeqUpTo(S, n) == UNION { [1..k -> S] : k \in 0..n }

Scores == 0..MaxScore

\* Player lists with unique identities: the i-th entry has the i-th email.
PlayerLists(n) ==
    { [i \in 1..Len(ss) |-> player(EmailNames[i], ss[i])] : ss \in SeqUpTo(Scores, n) }

\* The selected player: absent, or any identity (one more than a list can
\* hold, so that it may be missing from the list) with any score.
SelectedPlayers ==
    {Null} \cup { player(EmailNames[i], s) : i \in 1..(MaxPlayers + 1), s \in Scores }

AnswerValues == {Null, Str(""), Str("Yes")}

AnswerRecords == { answer(o, u) : o \in AnswerValues, u \in AnswerValues }

AnswerLists == {Null} \cup { Arr(items) : items \in SeqUpTo(AnswerRecords, MaxAnswers) }

\* const STORAGE_KEYS
STORAGE_KEYS ==
    [ ACCESS_TOKEN  |-> "prop_sheet_access_token",
      ID_TOKEN      |-> "prop_sheet_id_token",
      REFRESH_TOKEN |-> "prop_sheet_refresh_token",
      CODE_VERIFIER |-> "prop_sheet_code_verifier",
      USER          |-> "prop_sheet_user" ]

\* Object.values(STORAGE_KEYS)
AuthKeys == { STORAGE_KEYS[k] : k \in DOMAIN STORAGE_KEYS }

\* None of the five keys is in localStorage: getItem gives null for each.
NoAuthStorage == [k \in AuthKeys |-> Null]

\* No page that uses useAuth is loaded.
AuthNotRendered ==
    /\ authStorage = NoAuthStorage
    /\ authUser = Null
    /\ isLoading = TRUE
    /\ authError = Null
    /\ authPc = "idle"
    /\ urlCode = Null
    /\ now = 0
    /\ signInAwaits = 0
    /\ leaving = FALSE

\* The two functions are applied outside any view: nothing is mounted.
ViewNotRendered ==
    /\ mounted = FALSE
    /\ sockets = <<>>
    /\ handlerEmail = <<>>
    /\ wsRef = 0
    /\ reconnectTimeoutRef = 0
    /\ timers = {}
    /\ isConnected = FALSE
    /\ closes = 0
    /\ questions = <<>>
    /\ trends = {}
    /\ events = <<>>
    /\ error = Null
    /\ loading = TRUE
    /\ fetchState = "idle"
    /\ selectedEmail = Null
    /\ localStorage = {}
    /\ answersLoading = FALSE
    /\ answerRequests = <<>>
    /\ answerAwaits = <<>>
    /\ lastOp = "none"

-----------------------------------------------------------------------------
(* The rank engine applied to every player list.                           *)

InitRanks ==
    /\ ViewNotRendered
    /\ AuthNotRendered
    /\ players \in PlayerLists(MaxRankPlayers)
    /\ selectedPlayer = Null
    /\ myAnswers = Null
    /\ rankMap = <<>>
    /\ locals = NoLocals
    /\ whatIf = Null
    /\ pc = "start"

\* const rankMap = computeRanks(players)
ComputeRanks ==
    /\ pc = "start"
    /\ rankMap' = computeRanks(players)
    /\ locals' = [locals EXCEPT !.computeRanks = LocalsAfterComputeRanks(players, rankMap')]
    /\ players' = PlayersAfterComputeRanks(players)
    /\ pc' = "ranked"
    /\ UNCHANGED <<selectedPlayer, myAnswers, whatIf>>
    /\ UNCHANGED viewVars

NextRanks == ComputeRanks

SpecRanks == InitRanks /\ [][NextRanks]_vars

-----------------------------------------------------------------------------
(* The what-if projector applied to every input.                           *)

InitWhatIf ==
    /\ ViewNotRendered
    /\ AuthNotRendered
    /\ players \in PlayerLists(MaxPlayers)
    /\ selectedPlayer \in SelectedPlayers
    /\ myAnswers \in AnswerLists
    /\ rankMap = <<>>
    /\ locals = NoLocals
    /\ whatIf = Null
    /\ pc = "start"

\* const whatIf = calculateWhatIf(selectedPlayer, players, myAnswers)
CalculateWhatIf ==
    /\ pc = "start"
    /\ whatIf' = calculateWhatIf(selectedPlayer, players, myAnswers)
    /\ locals' = [locals EXCEPT !.calculateWhatIf = LocalsAfterCalculateWhatIf(whatIf')]
    /\ players' = PlayersAfterCalculateWhatIf(players)
    /\ myAnswers' = AnswersAfterCalculateWhatIf(myAnswers)
    /\ pc' = "projected"
    /\ UNCHANGED <<selectedPlayer, rankMap>>
    /\ UNCHANGED viewVars

NextWhatIf == CalculateWhatIf

SpecWhatIf == InitWhatIf /\ [][NextWhatIf]_vars

-----------------------------------------------------------------------------
(* Both functions called, and called again, on every input.                *)

\* computeRanks(players), a second time with the same argument.
ComputeRanksAgain ==
    /\ pc = "ranked"
    /\ rankMap' = computeRanks(players)
    /\ locals' = [locals EXCEPT !.computeRanks = LocalsAfterComputeRanks(players, rankMap')]
    /\ players' = PlayersAfterComputeRanks(players)
    /\ pc' = "ranked again"
    /\ UNCHANGED <<selectedPlayer, myAnswers, whatIf>>
    /\ UNCHANGED viewVars

\* calculateWhatIf(selectedPlayer, players, myAnswers), a second time with
\* the same arguments.
CalculateWhatIfAgain ==
    /\ pc = "projected"
    /\ whatIf' = calculateWhatIf(selectedPlayer, players, myAnswers)
    /\ locals' = [locals EXCEPT !.calculateWhatIf = LocalsAfterCalculateWhatIf(whatIf')]
    /\ players' = PlayersAfterCalculateWhatIf(players)
    /\ myAnswers' = AnswersAfterCalculateWhatIf(myAnswers)
    /\ pc' = "projected again"
    /\ UNCHANGED <<selectedPlayer, rankMap>>
    /\ UNCHANGED viewVars

NextCalls ==
    \/ ComputeRanks
    \/ CalculateWhatIf
    \/ ComputeRanksAgain
    \/ CalculateWhatIfAgain

SpecCalls == InitWhatIf /\ [][NextCalls]_vars

-----------------------------------------------------------------------------
(* useWebSocket                                                            *)

\* setTimeout(..., 3000)
ReconnectDelayMs == 3000

\* A delay that grows with the number of sockets created so far.
ReconnectDelayBackoff(attempts) == ReconnectDelayMs * attempts

\* The delay of the reconnect timer; the code takes no account of the
\* attempts made so far.
ReconnectDelay(attempts) == ReconnectDelayMs

\* A state setter: React ignores it once the component is unmounted.
SetState(old, new) == IF mounted THEN new ELSE old

\* wsRef.current?.readyState === WebSocket.OPEN
CurrentIsOpen == wsRef # 0 /\ sockets[wsRef] = "OPEN"

\* connect(): return when the current socket is open; otherwise create a
\* socket (readyState CONNECTING), attach the handlers and store it in wsRef.
Connect ==
    IF CurrentIsOpen
    THEN UNCHANGED <<sockets, wsRef, handlerEmail>>
    ELSE /\ sockets' = Append(sockets, "CONNECTING")
         /\ wsRef' = Len(sockets) + 1
         /\ handlerEmail' = Append(handlerEmail, Null)

\* ws.onclose: setIsConnected(false); wsRef.current = null; schedule the
\* reconnect.  The timer of socket i gets the id i.
OnClose(i) ==
    /\ isConnected' = SetState(isConnected, FALSE)
    /\ wsRef' = 0
    /\ reconnectTimeoutRef' = i
    /\ timers' = timers \cup {[id |-> i, delay |-> ReconnectDelay(Len(sockets))]}

\* The socket's open event: ws.onopen.
SocketOpens(i) ==
    /\ sockets[i] = "CONNECTING"
    /\ sockets' = [sockets EXCEPT ![i] = "OPEN"]
    /\ isConnected' = SetState(isConnected, TRUE)
    /\ lastOp' = "open"
    /\ UNCHANGED <<mounted, wsRef, reconnectTimeoutRef, timers, closes, handlerEmail>>
    /\ UNCHANGED <<dataVars, fetchVars, selectVars, fnVars, authVars>>

\* The socket's close event: the attempt failed or the channel dropped (the
\* network's doing), or the closing handshake started by close() finished.
SocketCloses(i) ==
    /\ \/ sockets[i] \in {"CONNECTING", "OPEN"} /\ closes < MaxCloses /\ closes' = closes + 1
       \/ sockets[i] = "CLOSING" /\ closes' = closes
    /\ sockets' = [sockets EXCEPT ![i] = "CLOSED"]
    /\ OnClose(i)
    /\ lastOp' = "close"
    /\ UNCHANGED <<mounted, handlerEmail>>
    /\ UNCHANGED <<dataVars, fetchVars, selectVars, fnVars, authVars>>

\* The reconnect timer fires: connect().
ReconnectTimerFires(t) ==
    /\ t \in timers
    /\ timers' = timers \ {t}
    /\ Connect
    /\ lastOp' = "reconnect"
    /\ UNCHANGED <<mounted, reconnectTimeoutRef, isConnected, closes>>
    /\ UNCHANGED <<dataVars, fetchVars, selectVars, fnVars, authVars>>

\* WebSocket.close(): an open or connecting socket starts closing.
CloseSocket(ss, i) ==
    IF ss[i] \in {"CONNECTING", "OPEN"} THEN [ss EXCEPT ![i] = "CLOSING"] ELSE ss

\* The effect's cleanup on unmount: clear the timer named by
\* reconnectTimeoutRef, close the socket named by wsRef.
Unmount ==
    /\ mounted
    /\ mounted' = FALSE
    /\ timers' = IF reconnectTimeoutRef # 0
                 THEN { t \in timers : t.id # reconnectTimeoutRef }
                 ELSE timers
    /\ sockets' = IF wsRef # 0 THEN CloseSocket(sockets, wsRef) ELSE sockets
    /\ lastOp' = "unmount"
    /\ UNCHANGED <<wsRef, reconnectTimeoutRef, isConnected, closes, handlerEmail>>
    /\ UNCHANGED <<dataVars, fetchVars, selectVars, fnVars, authVars>>

-----------------------------------------------------------------------------
(* Messages of the push channel and the update handler.                    *)

\* The text of a message or of a response body: not JSON at all, or the
\* JSON text of a value.
NotJson == [json |-> FALSE]

JsonText(v) == [json |-> TRUE, value |-> v]

\* JSON.parse: throws on a text that is not JSON, returns the value otherwise.
JSONParse(text) ==
    IF text.json THEN [threw |-> FALSE, value |-> text.value] ELSE [threw |-> TRUE]

\* .slice(0, 20)
MaxEventsKept == 20

\* A slice that keeps everything.
SliceAll(s, n) == s

\* Array.prototype.slice(0, n)
SliceFromStart(s, n) == SubSeq(s, 1, IF Len(s) < n THEN Len(s) ELSE n)

\* A players update that merges the new scores into the old list, and an
\* events update that replaces the feed.
UpdatePlayersMerging(data, prev) ==
    IF Truthy(data.scores) THEN data.scores.items \o prev ELSE prev

UpdateEventsReplacing(data, prev) ==
    IF Truthy(data.events) THEN data.events.items ELSE prev

\* if (data.scores) setPlayers(data.scores)
UpdatePlayers(data, prev) ==
    IF Truthy(data.scores) THEN data.scores.items ELSE prev

\* if (data.questions) setQuestions(data.questions)
UpdateQuestions(data, prev) ==
    IF Truthy(data.questions) THEN data.questions.items ELSE prev

\* if (data.trends) setTrends(data.trends)
UpdateTrends(data, prev) ==
    IF Truthy(data.trends) THEN data.trends.entries ELSE prev

\* if (data.events && data.events.length > 0)
\*   setEvents(prev => [...data.events, ...prev].slice(0, 20))
UpdateEvents(data, prev) ==
    IF Truthy(data.events) /\ Len(data.events.items) > 0
    THEN SliceFromStart(data.events.items \o prev, MaxEventsKept)
    ELSE prev

\* handleWebSocketMessage(data)
HandleWebSocketMessage(data) ==
    /\ players' = SetState(players, UpdatePlayers(data, players))
    /\ questions' = SetState(questions, UpdateQuestions(data, questions))
    /\ trends' = SetState(trends, UpdateTrends(data, trends))
    /\ events' = SetState(events, UpdateEvents(data, events))

\* A type test that lets every message with a type through.
IsUpdateAnyType(data) == data.type # Undefined

\* data.type === "update"
IsUpdate(data) == data.type = Str("update")

\* A parser whose failure is taken for an empty update.
ParsedOrThrewLenient(text) ==
    IF ~text.json
    THEN [threw |-> FALSE,
          value |-> [type |-> Str("update"), scores |-> Arr(<<>>), questions |-> Arr(<<>>),
                     trends |-> Obj({}), events |-> Undefined]]
    ELSE [threw |-> text.value = Null, value |-> text.value]

\* The try block of ws.onmessage up to the type test: JSON.parse throws, or
\* data.type throws because the value is null.
ParsedOrThrew(text) ==
    LET r == JSONParse(text)
    IN  IF r.threw THEN [threw |-> TRUE]
        ELSE IF r.value = Null THEN [threw |-> TRUE]
        ELSE r

\* ws.onmessage: parse, hand an update to onMessage; the catch only logs.
OnMessage(text) ==
    LET r == ParsedOrThrew(text)
    IN  IF r.threw THEN UNCHANGED dataVars
        ELSE IF IsUpdate(r.value) THEN HandleWebSocketMessage(r.value)
        ELSE UNCHANGED dataVars

\* What a message is: not parsable, an update, or of another type.
MessageKind(text) ==
    IF ~text.json \/ text.value = Null THEN "malformed"
    ELSE IF text.value.type = Str("update") THEN "update"
    ELSE "ignored"

\* The snapshots the server sends.
ScoresA == << player(EmailNames[1], 1) >>

ScoresB == << player(EmailNames[1], 2), player(EmailNames[2], 1) >>

QuestionsA == << "Q1" >>

TrendsA == { <<EmailNames[1], "up">> }

ScoresFields == {Undefined, Null, Arr(<<>>), Arr(ScoresA), Arr(ScoresB)}

QuestionsFields == {Undefined, Arr(<<>>), Arr(QuestionsA)}

TrendsFields == {Undefined, Obj({}), Obj(TrendsA)}

EventsFields == {Undefined, Arr(<<>>), Arr(<<"e1">>), Arr(<<"e2", "e1">>)}

message(type, scores, qs, trs, evs) ==
    [type |-> type, scores |-> scores, questions |-> qs, trends |-> trs, events |-> evs]

UpdateMessages ==
    { message(Str("update"), s, q, tr, e) :
        s \in ScoresFields, q \in QuestionsFields, tr \in TrendsFields, e \in EventsFields }

OtherMessages ==
    { message(ty, Arr(ScoresB), Arr(QuestionsA), Obj(TrendsA), Arr(<<"e1">>)) :
        ty \in {Str("ping"), Str("Update"), Undefined} }

MessageTexts ==
    {NotJson, JsonText(Null)} \cup { JsonText(m) : m \in UpdateMessages \cup OtherMessages }

\* The updates pushed to a mounted view: one event at a time.
PushedUpdates ==
    { message(Str("update"), s, q, tr, e) :
        s \in {Undefined, Null, Arr(ScoresA), Arr(ScoresB)},
        q \in {Undefined, Arr(QuestionsA)},
        tr \in {Undefined, Obj(TrendsA)},
        e \in {Undefined, Arr(<<"e1">>)} }

PushedTexts ==
    {NotJson, JsonText(Null)} \cup { JsonText(m) : m \in PushedUpdates \cup OtherMessages }

\* The socket's message event: ws.onmessage.  A socket delivers messages
\* only while it is open.
SocketMessage(i, text) ==
    /\ sockets[i] = "OPEN"
    /\ OnMessage(text)
    /\ lastOp' = MessageKind(text)
    /\ UNCHANGED <<hookVars, fetchVars, fnVars, authVars>>
    /\ UNCHANGED selectVars

-----------------------------------------------------------------------------
(* The initial fetch.                                                      *)

\* The outcome of fetch(`${API_BASE_URL}/scores`): no response at all, or a
\* response with a status and a body.
NetworkError == [delivered |-> FALSE]

HttpResponse(status, body) == [delivered |-> TRUE, status |-> status, body |-> body]

\* response.ok
ResponseOk(r) == r.status >= 200 /\ r.status <= 299

\* A fetch that does not look at response.ok.
FetchInitialDataUnchecked(r) ==
    IF ~r.delivered THEN [threw |-> TRUE] ELSE JSONParse(r.body)

\* fetchInitialData(): throws when fetch rejects, when the response is not
\* OK and when the body is not JSON.
FetchInitialData(r) ==
    IF ~r.delivered THEN [threw |-> TRUE]
    ELSE IF ~ResponseOk(r) THEN [threw |-> TRUE]
    ELSE JSONParse(r.body)

\* data.scores || []
OrEmptyItems(v) == IF Truthy(v) THEN v.items ELSE <<>>

\* data.trends || {}
OrEmptyEntries(v) == IF Truthy(v) THEN v.entries ELSE {}

snapshot(scores, qs, trs) == [scores |-> scores, questions |-> qs, trends |-> trs]

FetchOutcomes ==
    {NetworkError, HttpResponse(500, NotJson), HttpResponse(404, JsonText(Null)),
     HttpResponse(200, NotJson), HttpResponse(200, JsonText(Null))}
    \cup { HttpResponse(st, JsonText(snapshot(s, q, tr))) :
             st \in {200, 500},
             s \in {Undefined, Arr(ScoresA), Arr(ScoresB)},
             q \in {Undefined, Arr(QuestionsA)},
             tr \in {Undefined, Obj(TrendsA)} }

\* loadInitialData(), from the await on: the try block sets the three fields
\* and clears the error, the catch sets the error, finally clears loading.
\* Reading data.scores of a null body throws inside the try block.
LoadInitialDataSettles(r) ==
    /\ fetchState = "pending"
    /\ LET got == FetchInitialData(r)
       IN  IF got.threw \/ got.value = Null
           THEN /\ error' = SetState(error, Str("Failed to load leaderboard data"))
                /\ fetchState' = "failed"
                /\ UNCHANGED <<players, questions, trends>>
           ELSE /\ players' = SetState(players, OrEmptyItems(got.value.scores))
                /\ questions' = SetState(questions, OrEmptyItems(got.value.questions))
                /\ trends' = SetState(trends, OrEmptyEntries(got.value.trends))
                /\ error' = SetState(error, Null)
                /\ fetchState' = "succeeded"
    /\ loading' = SetState(loading, FALSE)
    /\ lastOp' = IF fetchState' = "failed" THEN "fetch-failed" ELSE "fetch-ok"
    /\ UNCHANGED <<events, hookVars, fnVars, authVars>>
    /\ UNCHANGED selectVars

-----------------------------------------------------------------------------
(* The persisted selection and the answer lookups.                         *)

\* The key of the selection in localStorage.
SelectedEmailKey == "selectedEmail"

\* The string localStorage keeps for a value (ToString).
StorageString(v) ==
    CASE v = Null -> "null"
      [] v = Undefined -> "undefined"
      [] OTHER -> v.val

\* localStorage.getItem(key): the stored string, or null.
GetItem(storage, key) ==
    IF \E e \in storage : e[1] = key
    THEN Str((CHOOSE e \in storage : e[1] = key)[2])
    ELSE Null

\* localStorage.removeItem(key)
RemoveItem(storage, key) == { e \in storage : e[1] # key }

\* A setItem under another key.
SetItemOtherKey(storage, key, v) ==
    RemoveItem(storage, "selected") \cup { <<"selected", StorageString(v)>> }

\* localStorage.setItem(key, value)
SetItem(storage, key, v) == RemoveItem(storage, key) \cup { <<key, StorageString(v)>> }

\* What awaits a lookup in flight: loadAnswers of the effect.
AwaitedByLoadAnswers == [by |-> "loadAnswers"]

\* The identities a user can select.
SelectableEmails == { Str(EmailNames[1]), Str(EmailNames[2]) }

\* The effect on selectedEmail, run after a render in which it changed (and
\* on mount): clear the answers when nothing is selected, otherwise start a
\* lookup for the selected identity.
LoadAnswersEffect(email) ==
    IF ~Truthy(email)
    THEN /\ myAnswers' = Null
         /\ UNCHANGED <<answersLoading, answerRequests, answerAwaits>>
    ELSE /\ answersLoading' = TRUE
         /\ answerRequests' = Append(answerRequests, email)
         /\ answerAwaits' = Append(answerAwaits, AwaitedByLoadAnswers)
         /\ UNCHANGED myAnswers

\* handlePlayerSelect(email), and the effect it triggers.
HandlePlayerSelect(email) ==
    /\ mounted
    /\ email = selectedEmail \/ Len(answerRequests) < MaxInFlight
    /\ selectedEmail' = email
    /\ localStorage' = SetItem(localStorage, SelectedEmailKey, email)
    /\ IF email # selectedEmail
       THEN LoadAnswersEffect(email)
       ELSE UNCHANGED <<myAnswers, answersLoading, answerRequests, answerAwaits>>
    /\ lastOp' = "select"
    /\ UNCHANGED <<hookVars, fetchVars, fnVars, authVars, players, questions, trends, events>>

\* handleClearSelection(), and the effect it triggers.
HandleClearSelection ==
    /\ mounted
    /\ selectedEmail' = Null
    /\ localStorage' = RemoveItem(localStorage, SelectedEmailKey)
    /\ IF selectedEmail # Null
       THEN LoadAnswersEffect(Null)
       ELSE UNCHANGED <<myAnswers, answersLoading, answerRequests, answerAwaits>>
    /\ lastOp' = "clear"
    /\ UNCHANGED <<hookVars, fetchVars, fnVars, authVars, players, questions, trends, events>>

\* A lookup for which a 404 is an error like any other status that is not OK.
FetchUserAnswersNoNotFound(r) ==
    IF ~r.delivered THEN [threw |-> TRUE]
    ELSE IF ~ResponseOk(r) THEN [threw |-> TRUE]
         ELSE JSONParse(r.body)

\* fetchUserAnswers(email): null on a 404, a throw on a rejected fetch, on
\* another status that is not OK, and on a body that is not JSON.
FetchUserAnswers(r) ==
    IF ~r.delivered THEN [threw |-> TRUE]
    ELSE IF ~ResponseOk(r)
         THEN IF r.status = 404 THEN [threw |-> FALSE, value |-> Null] ELSE [threw |-> TRUE]
         ELSE JSONParse(r.body)

\* data?.answers || null
AnswersOrNull(data) ==
    IF data = Null THEN Null
    ELSE IF Truthy(data.answers) THEN data.answers ELSE Null

\* The answers the server holds for a player: each player has their own.
AnswersOf(email) ==
    IF email = Str(EmailNames[1])
    THEN Arr(<< answer(Null, Str("Yes")) >>)
    ELSE Arr(<< answer(Str("Yes"), Str("No")) >>)

\* What a lookup for email can be answered with.
AnswerOutcomes(email) ==
    {NetworkError, HttpResponse(404, NotJson), HttpResponse(500, NotJson),
     HttpResponse(404, JsonText([answers |-> AnswersOf(email)])),
     HttpResponse(200, JsonText([answers |-> AnswersOf(email)])),
     HttpResponse(200, JsonText([answers |-> Undefined]))}

RemoveAt(s, k) == [i \in 1..(Len(s) - 1) |-> IF i < k THEN s[i] ELSE s[i + 1]]

\* loadAnswers(), from the await on, for the k-th lookup in flight.
LoadAnswersSettles(k, r) ==
    /\ k \in 1..Len(answerRequests)
    /\ answerAwaits[k] = AwaitedByLoadAnswers
    /\ answerRequests' = RemoveAt(answerRequests, k)
    /\ answerAwaits' = RemoveAt(answerAwaits, k)
    /\ LET got == FetchUserAnswers(r)
       IN  myAnswers' = SetState(myAnswers, IF got.threw THEN Null ELSE AnswersOrNull(got.value))
    /\ answersLoading' = SetState(answersLoading, FALSE)
    /\ lastOp' = IF FetchUserAnswers(r).threw THEN "answers-failed"
                 ELSE IF r.status = 404 THEN "answers-not-found"
                 ELSE "answers"
    /\ UNCHANGED <<selectedEmail, localStorage>>
    /\ UNCHANGED <<hookVars, fetchVars, fnVars, authVars, players, questions, trends, events>>

-----------------------------------------------------------------------------
(* Mounting the view.                                                      *)

\* The state after the first render and its effects, given what the
\* browser's storage holds: the selection is read from storage, connect()
\* has created the first socket, the initial fetch and (with a selection)
\* the answer lookup are in flight.
MountedView(storage, captured) ==
    /\ AuthNotRendered
    /\ mounted = TRUE
    /\ sockets = << "CONNECTING" >>
    /\ handlerEmail = << captured >>
    /\ wsRef = 1
    /\ reconnectTimeoutRef = 0
    /\ timers = {}
    /\ isConnected = FALSE
    /\ closes = 0
    /\ players = <<>>
    /\ questions = <<>>
    /\ trends = {}
    /\ events = <<>>
    /\ error = Null
    /\ loading = TRUE
    /\ fetchState = "pending"
    /\ localStorage = storage
    /\ selectedEmail = GetItem(storage, SelectedEmailKey)
    /\ myAnswers = Null
    /\ answersLoading = Truthy(GetItem(storage, SelectedEmailKey))
    /\ answerRequests = IF Truthy(GetItem(storage, SelectedEmailKey))
                        THEN << GetItem(storage, SelectedEmailKey) >>
                        ELSE <<>>
    /\ answerAwaits = IF Truthy(GetItem(storage, SelectedEmailKey))
                      THEN << AwaitedByLoadAnswers >>
                      ELSE <<>>
    /\ selectedPlayer = Null
    /\ rankMap = <<>>
    /\ locals = NoLocals
    /\ whatIf = Null
    /\ pc = "view"

\* The view of App.js mounted: its message handler closes over no selection.
Mounted(storage) == MountedView(storage, Null)

\* A reload of the page: the old page's sockets, timers and requests are
\* gone with it; localStorage stays; the view mounts anew.
Reload ==
    /\ mounted' = TRUE
    /\ sockets' = << "CONNECTING" >>
    /\ handlerEmail' = << Null >>
    /\ wsRef' = 1
    /\ reconnectTimeoutRef' = 0
    /\ timers' = {}
    /\ isConnected' = FALSE
    /\ closes' = 0
    /\ players' = <<>>
    /\ questions' = <<>>
    /\ trends' = {}
    /\ events' = <<>>
    /\ error' = Null
    /\ loading' = TRUE
    /\ fetchState' = "pending"
    /\ localStorage' = localStorage
    /\ selectedEmail' = GetItem(localStorage, SelectedEmailKey)
    /\ myAnswers' = Null
    /\ answersLoading' = Truthy(GetItem(localStorage, SelectedEmailKey))
    /\ answerRequests' = IF Truthy(GetItem(localStorage, SelectedEmailKey))
                         THEN << GetItem(localStorage, SelectedEmailKey) >>
                         ELSE <<>>
    /\ answerAwaits' = IF Truthy(GetItem(localStorage, SelectedEmailKey))
                       THEN << AwaitedByLoadAnswers >>
                       ELSE <<>>
    /\ lastOp' = "reload"
    /\ UNCHANGED <<fnVars, authVars>>

-----------------------------------------------------------------------------
(* The hook, the push updates and the initial fetch of a mounted view.     *)

InitHook == Mounted({}) /\ lastOp = "mount"

NextHook ==
    \/ \E i \in 1..Len(sockets) : SocketOpens(i)
    \/ \E i \in 1..Len(sockets) : SocketCloses(i)
    \/ \E t \in timers : ReconnectTimerFires(t)
    \/ \E i \in 1..Len(sockets), text \in PushedTexts :
          SocketMessage(i, text) /\ Len(events') <= MaxFeed
    \/ \E r \in FetchOutcomes : LoadInitialDataSettles(r)
    \/ Unmount

SpecHook == InitHook /\ [][NextHook]_vars

\* The socket events and the timers of the hook alone.  An armed timer
\* fires, and a socket that is connecting or closing gets its open or close
\* event.
NextReconnect ==
    \/ \E i \in 1..Len(sockets) : SocketOpens(i)
    \/ \E i \in 1..Len(sockets) : SocketCloses(i)
    \/ \E t \in timers : ReconnectTimerFires(t)
    \/ \E r \in FetchOutcomes : LoadInitialDataSettles(r)
    \/ Unmount

SpecReconnect ==
    /\ InitHook
    /\ [][NextReconnect]_vars
    /\ WF_vars(\E t \in timers : ReconnectTimerFires(t))

-----------------------------------------------------------------------------
(* One message delivered to a connected view, whatever it holds.           *)

\* An events list of n entries received earlier.
PriorFeed(n) == [i \in 1..n |-> "e0"]

PriorFeeds == { PriorFeed(n) : n \in {0, 1, MaxEventsKept - 1, MaxEventsKept} }

\* A view whose socket is open and whose initial fetch has settled, holding
\* data and events received so far.
InitMessage ==
    /\ AuthNotRendered
    /\ mounted = TRUE
    /\ sockets = << "OPEN" >>
    /\ handlerEmail = << Null >>
    /\ wsRef = 1
    /\ reconnectTimeoutRef = 0
    /\ timers = {}
    /\ isConnected = TRUE
    /\ closes = 0
    /\ players \in {<<>>, ScoresA}
    /\ questions \in {<<>>, QuestionsA}
    /\ trends \in {{}, TrendsA}
    /\ events \in PriorFeeds
    /\ error = Null
    /\ loading = FALSE
    /\ fetchState = "succeeded"
    /\ localStorage = {}
    /\ selectedEmail = Null
    /\ myAnswers = Null
    /\ answersLoading = FALSE
    /\ answerRequests = <<>>
    /\ answerAwaits = <<>>
    /\ selectedPlayer = Null
    /\ rankMap = <<>>
    /\ locals = NoLocals
    /\ whatIf = Null
    /\ pc = "view"
    /\ lastOp = "open"

NextMessage == lastOp = "open" /\ \E text \in MessageTexts : SocketMessage(1, text)

SpecMessage == InitMessage /\ [][NextMessage]_vars

-----------------------------------------------------------------------------
(* Any sequence of event updates delivered to a connected view.            *)

\* The batches of events an update carries.
FeedBatches == { <<>>, << "e1" >>, << "e2", "e1" >> }

\* An update that carries nothing but events.
EventsUpdate(batch) == message(Str("update"), Undefined, Undefined, Undefined, Arr(batch))

\* An update that carries nothing at all.
EmptyUpdate == message(Str("update"), Undefined, Undefined, Undefined, Undefined)

FeedTexts == { JsonText(EmptyUpdate) } \cup { JsonText(EventsUpdate(b)) : b \in FeedBatches }

\* A connected view that has received no event yet.
InitFeed ==
    /\ InitMessage
    /\ players = <<>>
    /\ questions = <<>>
    /\ trends = {}
    /\ events = <<>>

NextFeed == \E text \in FeedTexts : SocketMessage(1, text)

SpecFeed == InitFeed /\ [][NextFeed]_vars

-----------------------------------------------------------------------------
(* The selection of a view across selections, clears and reloads.          *)

InitialStorages ==
    { {} } \cup { { <<SelectedEmailKey, StorageString(e)>> } : e \in SelectableEmails }

InitSelect == (\E storage \in InitialStorages : Mounted(storage)) /\ lastOp = "mount"

NextSelect ==
    \/ \E e \in SelectableEmails : HandlePlayerSelect(e)
    \/ HandleClearSelection
    \/ \E k \in 1..Len(answerRequests) :
          \E r \in AnswerOutcomes(answerRequests[k]) : LoadAnswersSettles(k, r)
    \/ Reload

SpecSelect == InitSelect /\ [][NextSelect]_vars

-----------------------------------------------------------------------------
(* The view whose message handler depends on the selection: a change of    *)
(* selectedEmail makes a new handleWebSocketMessage, so a new connect, so  *)
(* the connection effect is torn down and run again.                       *)

\* connect() of the render in which email was selected: the socket it
\* creates hands its updates to that render's handleWebSocketMessage.
FocusedConnect(ss, email) ==
    IF wsRef # 0 /\ ss[wsRef] = "OPEN"
    THEN sockets' = ss /\ UNCHANGED <<wsRef, handlerEmail>>
    ELSE /\ sockets' = Append(ss, "CONNECTING")
         /\ wsRef' = Len(ss) + 1
         /\ handlerEmail' = Append(handlerEmail, email)

\* The connection effect run again because connect changed with the
\* selection: the cleanup of the previous run (clear the timer named by
\* reconnectTimeoutRef, close the socket named by wsRef), then connect() of
\* the new render.
ConnectEffectReruns(email) ==
    /\ timers' = IF reconnectTimeoutRef # 0
                 THEN { t \in timers : t.id # reconnectTimeoutRef }
                 ELSE timers
    /\ FocusedConnect(IF wsRef # 0 THEN CloseSocket(sockets, wsRef) ELSE sockets, email)
    /\ UNCHANGED <<mounted, reconnectTimeoutRef, isConnected, closes>>

\* The reconnect timer armed by socket t.id fires: connect() of the render
\* that created that socket.
FocusedReconnectTimerFires(t) ==
    /\ t \in timers
    /\ timers' = timers \ {t}
    /\ FocusedConnect(sockets, handlerEmail[t.id])
    /\ lastOp' = "reconnect"
    /\ UNCHANGED <<mounted, reconnectTimeoutRef, isConnected, closes>>
    /\ UNCHANGED <<dataVars, fetchVars, selectVars, fnVars, authVars>>

\* handlePlayerSelect(email) and the effects of the render it causes.
FocusedPlayerSelect(email) ==
    /\ mounted
    /\ email = selectedEmail \/ Len(answerRequests) < MaxFocusedInFlight
    /\ selectedEmail' = email
    /\ localStorage' = SetItem(localStorage, SelectedEmailKey, email)
    /\ IF email # selectedEmail
       THEN ConnectEffectReruns(email) /\ LoadAnswersEffect(email)
       ELSE UNCHANGED <<hookVars, myAnswers, answersLoading, answerRequests, answerAwaits>>
    /\ lastOp' = "select"
    /\ UNCHANGED <<fetchVars, fnVars, authVars, players, questions, trends, events>>

\* handleClearSelection() and the effects of the render it causes.
FocusedClearSelection ==
    /\ mounted
    /\ selectedEmail' = Null
    /\ localStorage' = RemoveItem(localStorage, SelectedEmailKey)
    /\ IF selectedEmail # Null
       THEN ConnectEffectReruns(Null) /\ LoadAnswersEffect(Null)
       ELSE UNCHANGED <<hookVars, myAnswers, answersLoading, answerRequests, answerAwaits>>
    /\ lastOp' = "clear"
    /\ UNCHANGED <<fetchVars, fnVars, authVars, players, questions, trends, events>>

\* What awaits a lookup in flight: handleWebSocketMessage, which after it
\* goes on to `if (data.trends)` with the trends of its update.
AwaitedByHandler(trs) == [by |-> "handleWebSocketMessage", trends |-> trs]

\* handleWebSocketMessage(data) of the render in which email was selected:
\* to its end, or to its await when the update has questions and an identity
\* is selected.  It sets no events.
FocusedHandleWebSocketMessage(data, email) ==
    /\ players' = SetState(players, UpdatePlayers(data, players))
    /\ questions' = SetState(questions, UpdateQuestions(data, questions))
    /\ IF Truthy(data.questions) /\ Truthy(email)
       THEN /\ answerRequests' = Append(answerRequests, email)
            /\ answerAwaits' = Append(answerAwaits, AwaitedByHandler(data.trends))
            /\ UNCHANGED trends
       ELSE /\ trends' = SetState(trends, UpdateTrends(data, trends))
            /\ UNCHANGED <<answerRequests, answerAwaits>>
    /\ UNCHANGED <<events, myAnswers>>

\* The socket's message event: ws.onmessage with the handler the socket was
\* created with.
FocusedSocketMessage(i, text) ==
    /\ sockets[i] = "OPEN"
    /\ LET r == ParsedOrThrew(text)
       IN  IF ~r.threw /\ IsUpdate(r.value)
           THEN FocusedHandleWebSocketMessage(r.value, handlerEmail[i])
           ELSE UNCHANGED <<dataVars, myAnswers, answerRequests, answerAwaits>>
    /\ lastOp' = MessageKind(text)
    /\ UNCHANGED <<hookVars, fetchVars, fnVars, authVars>>
    /\ UNCHANGED <<selectedEmail, localStorage, answersLoading>>

\* handleWebSocketMessage(data), from the await on, for the k-th lookup in
\* flight: set the answers unless the lookup threw (the catch only logs),
\* then the trends of the update.  answersLoading is not touched.
RefreshAnswersSettles(k, r) ==
    /\ k \in 1..Len(answerRequests)
    /\ answerAwaits[k] # AwaitedByLoadAnswers
    /\ answerRequests' = RemoveAt(answerRequests, k)
    /\ answerAwaits' = RemoveAt(answerAwaits, k)
    /\ LET got == FetchUserAnswers(r)
       IN  myAnswers' = IF got.threw THEN myAnswers
                        ELSE SetState(myAnswers, AnswersOrNull(got.value))
    /\ trends' = IF Truthy(answerAwaits[k].trends)
                 THEN SetState(trends, answerAwaits[k].trends.entries)
                 ELSE trends
    /\ lastOp' = IF FetchUserAnswers(r).threw THEN "refresh-failed" ELSE "refresh"
    /\ UNCHANGED <<selectedEmail, localStorage, answersLoading>>
    /\ UNCHANGED <<hookVars, fetchVars, fnVars, authVars, players, questions, events>>

\* The messages pushed to the view.
FocusedTexts ==
    { NotJson,
      JsonText(message(Str("update"), Arr(ScoresB), Arr(QuestionsA), Obj(TrendsA), Undefined)),
      JsonText(message(Str("update"), Undefined, Arr(<< "Q2" >>), Undefined, Undefined)) }

\* What the initial fetch of the view can be answered with.
FocusedFetchOutcomes ==
    { NetworkError,
      HttpResponse(200, JsonText(snapshot(Arr(ScoresB), Arr(QuestionsA), Obj(TrendsA)))) }

\* The identity selected in the view.
FocusedEmails == { Str(EmailNames[1]) }

\* The view mounted: the handler of the first render closes over the
\* selection read from storage.
InitFocused ==
    /\ \E storage \in { {} } \cup { { <<SelectedEmailKey, StorageString(e)>> } : e \in FocusedEmails } :
          MountedView(storage, GetItem(storage, SelectedEmailKey))
    /\ lastOp = "mount"

NextFocused ==
    \/ \E i \in 1..Len(sockets) : SocketOpens(i)
    \/ \E i \in 1..Len(sockets) : SocketCloses(i) /\ closes' <= MaxFocusedCloses
    \/ \E t \in timers : FocusedReconnectTimerFires(t) /\ Len(sockets') <= MaxSockets
    \/ \E e \in FocusedEmails : FocusedPlayerSelect(e) /\ Len(sockets') <= MaxSockets
    \/ FocusedClearSelection /\ Len(sockets') <= MaxSockets
    \/ \E i \in 1..Len(sockets), text \in FocusedTexts :
          FocusedSocketMessage(i, text) /\ Len(answerRequests') <= MaxFocusedInFlight
    \/ \E k \in 1..Len(answerRequests) :
          \E r \in AnswerOutcomes(answerRequests[k]) : LoadAnswersSettles(k, r)
    \/ \E k \in 1..Len(answerRequests) :
          \E r \in AnswerOutcomes(answerRequests[k]) : RefreshAnswersSettles(k, r)
    \/ \E r \in FocusedFetchOutcomes : LoadInitialDataSettles(r)
    \/ Unmount

SpecFocused == InitFocused /\ [][NextFocused]_vars

-----------------------------------------------------------------------------
(* What a render derives from players, selectedEmail and myAnswers.        *)

\* players.find((p) => p.email === selectedEmail): the first match, or
\* undefined.
Find(ps, email) ==
    IF email # Null /\ \E i \in 1..Len(ps) : ps[i].email = email.val
    THEN ps[CHOOSE i \in 1..Len(ps) :
                /\ ps[i].email = email.val
                /\ \A j \in 1..(i - 1) : ps[j].email # email.val]
    ELSE Undefined

\* selectedPlayer ? rankMap.get(selectedPlayer.score) : null
SelectedRankInfo(m, sel) == IF Truthy(sel) THEN MapGet(m, sel.score) ELSE Null

\* The selections a render can see: none, a listed player, an identity that
\* is in no list.

\* The view mounted with a selection in storage or with none, once its
\* socket has opened, its initial fetch has brought a player list and, with
\* a selection, its lookup has settled: the handler of the socket closes
\* over the selection read from storage, and without a selection there are
\* no answers.  The lists are as long as those of the rank engine, so that
\* ties and several score groups stand above the selected player; the
\* answers are null or records of a pick whose official answer is absent,
\* empty or set.
InitRender ==
    /\ AuthNotRendered
    /\ mounted = TRUE
    /\ sockets = << "OPEN" >>
    /\ selectedEmail \in {Null} \cup { Str(EmailNames[i]) : i \in 1..(MaxRankPlayers + 1) }
    /\ handlerEmail = << selectedEmail >>
    /\ wsRef = 1
    /\ reconnectTimeoutRef = 0
    /\ timers = {}
    /\ isConnected = TRUE
    /\ closes = 0
    /\ players \in PlayerLists(MaxRankPlayers)
    /\ questions = <<>>
    /\ trends = {}
    /\ events = <<>>
    /\ error = Null
    /\ loading = FALSE
    /\ fetchState = "succeeded"
    /\ localStorage = IF selectedEmail = Null THEN {}
                      ELSE SetItem({}, SelectedEmailKey, selectedEmail)
    /\ myAnswers \in
          (IF selectedEmail = Null THEN {Null}
           ELSE LET picks == { answer(o, Str("Yes")) : o \in AnswerValues }
                IN  {Null} \cup { Arr(items) : items \in SeqUpTo(picks, MaxAnswers) })
    /\ answersLoading = FALSE
    /\ answerRequests = <<>>
    /\ answerAwaits = <<>>
    /\ selectedPlayer = Null
    /\ rankMap = <<>>
    /\ locals = NoLocals
    /\ whatIf = Null
    /\ pc = "view"
    /\ lastOp = IF selectedEmail = Null THEN "fetch-ok" ELSE "answers"

\* The body of App from rankMap to whatIf.
Render ==
    /\ pc = "view"
    /\ rankMap' = computeRanks(players)
    /\ selectedPlayer' = Find(players, selectedEmail)
    /\ whatIf' = calculateWhatIf(Find(players, selectedEmail), players, myAnswers)
    /\ locals' = [ computeRanks    |-> LocalsAfterComputeRanks(players, rankMap'),
                   calculateWhatIf |-> LocalsAfterCalculateWhatIf(whatIf') ]
    /\ pc' = "rendered"
    /\ UNCHANGED <<players, myAnswers>>
    /\ UNCHANGED viewVars

NextRender == Render

SpecRender == InitRender /\ [][NextRender]_vars

-----------------------------------------------------------------------------
(* useAuth                                                                 *)

\* The seconds for which the clock runs, and for which an ID token is valid.
MaxClockSeconds == 2

TokenLifetimeSeconds == 1

\* The signIn() calls that may be suspended at their await at one time.
MaxSignInAwaits == 2

\* A number as a property value.
Num(n) == [kind |-> "number", val |-> n]

\* A token: a string of segments separated by dots, each segment given by
\* the text its base64url decoding yields.
Jwt(segments) == [kind |-> "jwt", segments |-> segments]

\* process.env.REACT_APP_COGNITO_CLIENT_ID: the deployment sets it.
CLIENT_ID == Str("client-id")

\* localStorage.getItem / setItem / removeItem on the five keys.  setItem
\* stores the string of its value: "undefined" for a missing property.
GetAuth(storage, key) == storage[key]

SetAuth(storage, key, v) ==
    [storage EXCEPT ![key] = CASE v = Undefined -> Str("undefined")
                               [] v = Null -> Str("null")
                               [] OTHER -> v]

RemoveAuth(storage, key) == [storage EXCEPT ![key] = Null]

\* parseJwt(token): the JSON value of the second segment; null when the
\* token is not a string, has no second segment, or the segment does not
\* decode to JSON (every throw is caught).
parseJwt(token) ==
    IF token.kind # "jwt" THEN Null
    ELSE IF Len(token.segments) < 2 THEN Null
    ELSE LET r == JSONParse(token.segments[2])
         IN  IF r.threw THEN Null ELSE r.value

\* payload.exp * 1000 > Date.now(); a missing exp makes it NaN > ..., false.
NotExpired(payload, nowMs) ==
    /\ payload.exp # Undefined
    /\ payload.exp.val * 1000 > nowMs

\* clearAuthStorage()
ClearAuthStorage ==
    /\ authStorage' = NoAuthStorage
    /\ authUser' = Null

\* checkSession()
CheckSession ==
    LET idToken == GetAuth(authStorage, STORAGE_KEYS.ID_TOKEN)
        storedUser == GetAuth(authStorage, STORAGE_KEYS.USER)
    IN  IF Truthy(idToken) /\ Truthy(storedUser)
        THEN LET payload == parseJwt(idToken)
             IN  IF Truthy(payload) /\ NotExpired(payload, now)
                 THEN LET parsed == JSONParse(storedUser)
                      IN  IF parsed.threw
                          THEN /\ UNCHANGED <<authStorage, authUser, isLoading>>
                               /\ lastOp' = "session-threw"
                          ELSE /\ authUser' = parsed.value
                               /\ isLoading' = FALSE
                               /\ UNCHANGED authStorage
                               /\ lastOp' = "session-restored"
                 ELSE /\ ClearAuthStorage
                      /\ isLoading' = FALSE
                      /\ lastOp' = "session-cleared"
        ELSE /\ UNCHANGED <<authStorage, authUser>>
             /\ isLoading' = FALSE
             /\ lastOp' = "session-none"

\* exchangeCodeForTokens(code, verifier), from the response on: what it
\* leaves in storage, and the user it returns unless it throws.  It throws
\* on a rejected fetch, a status that is not OK, a body that is not JSON or
\* is null, and, after it has stored the tokens, on an ID token parseJwt
\* gives null for (payload.email).
ExchangeCodeForTokens(r, storage) ==
    IF ~r.delivered THEN [threw |-> TRUE, storage |-> storage]
    ELSE IF ~ResponseOk(r) THEN [threw |-> TRUE, storage |-> storage]
    ELSE LET body == JSONParse(r.body)
         IN  IF body.threw THEN [threw |-> TRUE, storage |-> storage]
             ELSE IF body.value = Null THEN [threw |-> TRUE, storage |-> storage]
             ELSE LET tokens == body.value
                      s1 == SetAuth(storage, STORAGE_KEYS.ACCESS_TOKEN, tokens.access_token)
                      s2 == SetAuth(s1, STORAGE_KEYS.ID_TOKEN, tokens.id_token)
                      s3 == IF Truthy(tokens.refresh_token)
                            THEN SetAuth(s2, STORAGE_KEYS.REFRESH_TOKEN, tokens.refresh_token)
                            ELSE s2
                      payload == parseJwt(tokens.id_token)
                  IN  IF payload = Null THEN [threw |-> TRUE, storage |-> s3]
                      ELSE LET userData == [ email |-> payload.email,
                                             name  |-> IF Truthy(payload.name)
                                                       THEN payload.name ELSE payload.email,
                                             sub   |-> payload.sub ]
                           IN  [ threw   |-> FALSE,
                                 storage |-> SetAuth(s3, STORAGE_KEYS.USER, JsonText(userData)),
                                 user    |-> userData ]

\* Everything that is not useAuth's.
appVars ==
    <<players, selectedPlayer, myAnswers, rankMap, whatIf, pc, locals,
      mounted, sockets, wsRef, reconnectTimeoutRef, timers, isConnected, closes, handlerEmail,
      questions, trends, events, error, loading, fetchState,
      selectedEmail, localStorage, answersLoading, answerRequests, answerAwaits>>

\* The mount effect: handleCallback() up to its await, or through
\* checkSession() to its end.
HandleCallback ==
    /\ authPc = "mounted"
    /\ IF Truthy(urlCode) /\ Truthy(GetAuth(authStorage, STORAGE_KEYS.CODE_VERIFIER))
       THEN /\ isLoading' = TRUE
            /\ authPc' = "exchanging"
            /\ lastOp' = "callback"
            /\ UNCHANGED <<authStorage, authUser>>
       ELSE /\ CheckSession
            /\ authPc' = IF lastOp' = "session-threw" THEN "threw" ELSE "done"
    /\ UNCHANGED <<authError, urlCode, now, signInAwaits, leaving>>
    /\ UNCHANGED appVars

\* handleCallback() from the await on: the exchange ends, the URL is cleaned
\* or the error set, the verifier removed, isLoading set to false.
ExchangeSettles(r) ==
    /\ authPc = "exchanging"
    /\ LET got == ExchangeCodeForTokens(r, authStorage)
       IN  /\ authStorage' = RemoveAuth(got.storage, STORAGE_KEYS.CODE_VERIFIER)
           /\ authUser' = IF got.threw THEN authUser ELSE got.user
           /\ authError' = IF got.threw THEN Str("Authentication failed. Please try again.")
                           ELSE authError
           /\ urlCode' = IF got.threw THEN urlCode ELSE Null
           /\ lastOp' = IF got.threw THEN "exchange-failed" ELSE "exchange-ok"
    /\ isLoading' = FALSE
    /\ authPc' = "done"
    /\ UNCHANGED <<now, signInAwaits, leaving>>
    /\ UNCHANGED appVars

\* signIn() up to its await: the configuration check, the verifier, the
\* call of generateCodeChallenge.  The hook has rendered and its mount effect
\* has run, so the functions it returns can be called until the document is
\* replaced.
SignInStarts ==
    /\ authPc \in {"exchanging", "done", "threw"}
    /\ IF ~Truthy(CLIENT_ID)
       THEN /\ authError' = Str("Authentication not configured. Please set REACT_APP_COGNITO_CLIENT_ID.")
            /\ UNCHANGED signInAwaits
       ELSE /\ signInAwaits < MaxSignInAwaits
            /\ signInAwaits' = signInAwaits + 1
            /\ UNCHANGED authError
    /\ lastOp' = "sign-in"
    /\ UNCHANGED <<authStorage, authUser, isLoading, authPc, urlCode, now, leaving>>
    /\ UNCHANGED appVars

\* signIn() from the await on: the challenge is there, the verifier is
\* stored, and the page leaves for the hosted sign-in page.
SignInContinues ==
    /\ signInAwaits > 0
    /\ signInAwaits' = signInAwaits - 1
    /\ authStorage' = SetAuth(authStorage, STORAGE_KEYS.CODE_VERIFIER, Str("verifier"))
    /\ leaving' = TRUE
    /\ lastOp' = "sign-in-redirect"
    /\ UNCHANGED <<authUser, isLoading, authError, authPc, urlCode, now>>
    /\ UNCHANGED appVars

\* signOut(): clear the storage and leave for the logout page.
SignOut ==
    /\ authPc \in {"exchanging", "done", "threw"}
    /\ ClearAuthStorage
    /\ leaving' = IF Truthy(CLIENT_ID) THEN TRUE ELSE leaving
    /\ lastOp' = "sign-out"
    /\ UNCHANGED <<isLoading, authError, authPc, urlCode, now, signInAwaits>>
    /\ UNCHANGED appVars

\* The page is loaded (a redirect back, a reload, a visit): localStorage
\* stays, the hook starts from its initial state, and what the replaced
\* document awaited is gone with it.
PageLoads(code) ==
    /\ authPc \in {"exchanging", "done", "threw"}
    /\ authUser' = Null
    /\ isLoading' = TRUE
    /\ authError' = Null
    /\ authPc' = "mounted"
    /\ urlCode' = code
    /\ signInAwaits' = 0
    /\ leaving' = FALSE
    /\ lastOp' = "load"
    /\ UNCHANGED <<authStorage, now>>
    /\ UNCHANGED appVars

\* A second passes.
Tick ==
    /\ now < MaxClockSeconds * 1000
    /\ now' = now + 1000
    /\ UNCHANGED <<authStorage, authUser, isLoading, authError, authPc, urlCode, lastOp,
                   signInAwaits, leaving>>
    /\ UNCHANGED appVars

\* The claims of an ID token.
claims(exp) == [exp |-> exp, email |-> Str("a@test.com"), name |-> Undefined, sub |-> Str("sub-1")]

\* A well-formed token with the given payload text.
IdToken(payloadText) == Jwt(<< JsonText([alg |-> Str("RS256")]), payloadText, NotJson >>)

\* The outcomes of the POST to the token endpoint at time nowMs: a rejected
\* fetch, a 400, bodies that are not JSON or are null, and token sets with
\* or without a refresh token whose ID token is a live one, one already
\* expired, one without exp, one whose payload is not JSON, one that is no
\* token, or missing.
TokenResponses(nowMs) ==
    LET idTokens ==
            { IdToken(JsonText(claims(Num((nowMs \div 1000) + TokenLifetimeSeconds)))),
              IdToken(JsonText(claims(Num(nowMs \div 1000)))),
              IdToken(JsonText(claims(Undefined))),
              IdToken(NotJson),
              Jwt(<< NotJson >>),
              Undefined }
    IN  {NetworkError, HttpResponse(400, NotJson), HttpResponse(200, NotJson),
         HttpResponse(200, JsonText(Null))}
        \cup { HttpResponse(200, JsonText([ access_token  |-> Str("access"),
                                             id_token      |-> id,
                                             refresh_token |-> refresh ])) :
                 id \in idTokens, refresh \in {Undefined, Str("refresh")} }

\* A visit: the page is loaded with no code in its URL.  localStorage
\* holds under the five keys what the browser kept for the origin: nothing;
\* the ID token and the user of a session that is still live; or such a
\* token beside a user entry that is not JSON text.
InitAuth ==
    /\ ViewNotRendered
    /\ players = <<>>
    /\ selectedPlayer = Null
    /\ myAnswers = Null
    /\ rankMap = <<>>
    /\ locals = NoLocals
    /\ whatIf = Null
    /\ pc = "start"
    /\ authStorage \in
          LET live == IdToken(JsonText(claims(Num(TokenLifetimeSeconds))))
              userData == [email |-> Str("a@test.com"), name |-> Str("a@test.com"),
                           sub |-> Str("sub-1")]
          IN  { NoAuthStorage,
                [NoAuthStorage EXCEPT ![STORAGE_KEYS.ID_TOKEN] = live,
                                      ![STORAGE_KEYS.USER] = JsonText(userData)],
                [NoAuthStorage EXCEPT ![STORAGE_KEYS.ID_TOKEN] = live,
                                      ![STORAGE_KEYS.USER] = NotJson] }
    /\ authUser = Null
    /\ isLoading = TRUE
    /\ authError = Null
    /\ authPc = "mounted"
    /\ urlCode = Null
    /\ now = 0
    /\ signInAwaits = 0
    /\ leaving = FALSE

NextAuth ==
    \/ HandleCallback
    \/ \E r \in TokenResponses(now) : ExchangeSettles(r)
    \/ SignInStarts
    \/ SignInContinues
    \/ SignOut
    \/ \E code \in {Null, Str("code")} : PageLoads(code)
    \/ Tick

SpecAuth == InitAuth /\ [][NextAuth]_vars

-----------------------------------------------------------------------------
(* Properties of the rank engine.                                          *)

\* Counting directly on a player list.
NumAbove(ps, s) == Cardinality({ i \in 1..Len(ps) : ps[i].score > s })

NumAt(ps, s) == Cardinality({ i \in 1..Len(ps) : ps[i].score = s })

ScoreSet(ps) == { ps[i].score : i \in 1..Len(ps) }

RECURSIVE SumTieCounts(_, _)
SumTieCounts(m, i) ==
    IF i > Len(m) THEN 0 ELSE m[i].value.tieCount + SumTieCounts(m, i + 1)

ExampleRankPlayers ==
    << player("a@test.com", 10), player("b@test.com", 8),
       player("c@test.com", 8), player("d@test.com", 5) >>

ExampleRankMap ==
    << [key |-> 10, value |-> [rank |-> 1, tieCount |-> 1]],
       [key |-> 8,  value |-> [rank |-> 2, tieCount |-> 2]],
       [key |-> 5,  value |-> [rank |-> 4, tieCount |-> 1]] >>

ExampleRankResult == computeRanks(ExampleRankPlayers)

\* C1: computeRanks is standard competition ranking: every score s of the
\* list has an entry with rank = 1 + the number of players scoring strictly
\* more than s and tieCount = the number of players scoring s; the scores
\* [10,8,8,5] give {10:(1,1), 8:(2,2), 5:(4,1)}.
C1_CompetitionRanking ==
    /\ pc = "ranked" =>
         \A i \in 1..Len(players) :
            LET s == players[i].score
            IN  /\ MapHas(rankMap, s)
                /\ MapGet(rankMap, s).rank = 1 + NumAbove(players, s)
                /\ MapGet(rankMap, s).tieCount = NumAt(players, s)
    /\ ExampleRankResult = ExampleRankMap

\* A ranked list in which a tie makes the next rank skip.
C1_Witness ==
    /\ pc = "ranked"
    /\ \E s \in ScoreSet(players), u \in ScoreSet(players) :
          /\ MapGet(rankMap, s).tieCount >= 2
          /\ MapGet(rankMap, s).rank = 2
          /\ MapGet(rankMap, u).rank = 4

\* C2: the tieCounts of all entries of computeRanks(players) add up to
\* players.length.
C2_TieCountsSumToLength ==
    pc = "ranked" => SumTieCounts(rankMap, 1) = Len(players)

\* A ranked list with several entries, one of them a tie.
C2_Witness ==
    /\ pc = "ranked"
    /\ Len(rankMap) >= 2
    /\ Len(players) > Len(rankMap)

\* C3: computeRanks has exactly one entry per distinct score: the empty list
\* gives the empty map, and n >= 1 players with one common score give the
\* single entry (rank 1, tieCount n).
C3_OneEntryPerScore ==
    pc = "ranked" =>
       /\ Len(rankMap) = Cardinality(ScoreSet(players))
       /\ { rankMap[i].key : i \in 1..Len(rankMap) } = ScoreSet(players)
       /\ (Len(players) = 0 => rankMap = <<>>)
       /\ (Len(players) >= 1 /\ Cardinality(ScoreSet(players)) = 1 =>
             rankMap = << [key |-> players[1].score,
                           value |-> [rank |-> 1, tieCount |-> Len(players)]] >>)

\* Three players, all tied.
C3_Witness ==
    /\ pc = "ranked"
    /\ Len(players) = 3
    /\ Len(rankMap) = 1

-----------------------------------------------------------------------------
(* Properties of the what-if projector.                                    *)

\* Read directly off an answer record.
HasOfficialAnswer(a) == a.official_answer # Null /\ a.official_answer # Str("")

HasUserAnswer(a) == a.user_answer # Null /\ a.user_answer # Str("")

NumUnresolved(answers) ==
    Cardinality({ i \in 1..Len(answers.items) :
                     ~HasOfficialAnswer(answers.items[i]) /\ HasUserAnswer(answers.items[i]) })

\* The listed players other than the selected one.
Others(ps, sel) == { i \in 1..Len(ps) : ps[i].email # sel.email }

Projected == pc = "projected" /\ whatIf # Null

Unanswered(user) == answer(Null, Str(user))

ExampleMe == player("me@test.com", 5)

\* C4: calculateWhatIf returns null when selectedPlayer is absent, when
\* answers is null, when players is empty, or when no answer record is
\* unresolved (the empty answers list included).
C4_NullCases ==
    ( /\ pc = "projected"
      /\ \/ selectedPlayer = Null
         \/ myAnswers = Null
         \/ Len(players) = 0
         \/ (myAnswers # Null /\ NumUnresolved(myAnswers) = 0)
    ) => whatIf = Null

\* A selected player, a non-empty list and a non-empty answers list whose
\* records are all resolved or without a user answer.
C4_Witness ==
    /\ pc = "projected"
    /\ selectedPlayer # Null
    /\ Len(players) > 0
    /\ myAnswers # Null
    /\ Len(myAnswers.items) = 2
    /\ HasOfficialAnswer(myAnswers.items[1])
    /\ ~HasUserAnswer(myAnswers.items[2])
    /\ whatIf = Null

\* C5: in a non-null result unansweredCount and potentialPoints both equal
\* the number of records whose official answer is null or empty and whose
\* user answer is non-empty.
C5_UnansweredCount ==
    Projected =>
       /\ whatIf.unansweredCount = NumUnresolved(myAnswers)
       /\ whatIf.potentialPoints = NumUnresolved(myAnswers)

\* A result over a list that also holds a record that is not counted.
C5_Witness ==
    /\ Projected
    /\ Len(myAnswers.items) = 2
    /\ whatIf.unansweredCount = 1
    /\ \E i \in 1..2 : /\ ~HasOfficialAnswer(myAnswers.items[i])
                       /\ ~HasUserAnswer(myAnswers.items[i])

\* Selected 5 against an opponent at 4, one unresolved question.
ExampleTieBoundary ==
    calculateWhatIf(ExampleMe,
        << ExampleMe, player("other@test.com", 4) >>,
        Arr(<< Unanswered("Yes") >>))

\* C6: in a non-null result worstCaseRank = 1 + the number of listed players
\* other than the selected one whose score + potentialPoints is strictly
\* greater than the selected player's score; selected 5 against 4 with one
\* unresolved question gives worstCaseRank 1.
C6_WorstCaseRank ==
    /\ Projected =>
         whatIf.worstCaseRank =
            1 + Cardinality({ i \in Others(players, selectedPlayer) :
                  players[i].score + NumUnresolved(myAnswers) > selectedPlayer.score })
    /\ ExampleTieBoundary.worstCaseRank = 1

\* An opponent who can only tie, and is not counted as ahead.
C6_Witness ==
    /\ Projected
    /\ \E i \in Others(players, selectedPlayer) :
          players[i].score + whatIf.potentialPoints = selectedPlayer.score
    /\ whatIf.worstCaseRank = 1

\* Selected 5 with 6 unresolved questions against [10, 8].
ExampleBeatsEveryone ==
    calculateWhatIf(ExampleMe,
        << ExampleMe, player("o1@test.com", 10), player("o2@test.com", 8) >>,
        Arr([i \in 1..6 |-> Unanswered("Yes")]))

\* Selected 5 with 2 unresolved questions against [20, 8].
ExampleStillBehind ==
    calculateWhatIf(ExampleMe,
        << ExampleMe, player("o1@test.com", 20), player("o2@test.com", 8) >>,
        Arr([i \in 1..2 |-> Unanswered("Yes")]))

\* C7: in a non-null result bestCaseRank = 1 + the number of listed players
\* other than the selected one whose score is strictly greater than
\* bestCaseScore; 5 with 6 unresolved against [10, 8] gives 11 and rank 1,
\* 5 with 2 unresolved against [20, 8] gives rank 3.
C7_BestCaseRank ==
    /\ Projected =>
         whatIf.bestCaseRank =
            1 + Cardinality({ i \in Others(players, selectedPlayer) :
                  players[i].score > selectedPlayer.score + NumUnresolved(myAnswers) })
    /\ ExampleBeatsEveryone.bestCaseScore = 11
    /\ ExampleBeatsEveryone.bestCaseRank = 1
    /\ ExampleStillBehind.bestCaseScore = 7
    /\ ExampleStillBehind.bestCaseRank = 3

\* An opponent exactly at the best-case score, who is not counted.
C7_Witness ==
    /\ Projected
    /\ \E i \in Others(players, selectedPlayer) :
          players[i].score = whatIf.bestCaseScore
    /\ whatIf.bestCaseRank = 1

\* C8: in a non-null result currentRank = 1 + the number of listed players
\* other than the selected one whose score is strictly greater than the
\* selected player's score.
C8_CurrentRank ==
    Projected =>
       whatIf.currentRank =
          1 + Cardinality({ i \in Others(players, selectedPlayer) :
                players[i].score > selectedPlayer.score })

\* An opponent tied with the selected player, who is not counted.
C8_Witness ==
    /\ Projected
    /\ \E i \in Others(players, selectedPlayer) :
          players[i].score = selectedPlayer.score
    /\ whatIf.currentRank = 1

\* C9: in a non-null result currentScore = selectedPlayer.score,
\* bestCaseScore = currentScore + potentialPoints and
\* worstCaseScore = currentScore.
C9_Scores ==
    Projected =>
       /\ whatIf.currentScore = selectedPlayer.score
       /\ whatIf.bestCaseScore = whatIf.currentScore + whatIf.potentialPoints
       /\ whatIf.worstCaseScore = whatIf.currentScore

\* A result with a positive score and two potential points.
C9_Witness ==
    /\ Projected
    /\ whatIf.currentScore = 1
    /\ whatIf.potentialPoints = 2
    /\ whatIf.bestCaseScore = 3

InList(ps, sel) == \E i \in 1..Len(ps) : ps[i].email = sel.email

RanksWithin(r, n) ==
    /\ r.bestCaseRank \in 1..n
    /\ r.currentRank \in 1..n
    /\ r.worstCaseRank \in 1..n

\* C10 as stated: in every result totalPlayers is the list length and each
\* of the three ranks lies between 1 and totalPlayers.
C10_RanksWithinTotal ==
    Projected =>
       /\ whatIf.totalPlayers = Len(players)
       /\ RanksWithin(whatIf, whatIf.totalPlayers)

\* C10, amended: in every result totalPlayers is the list length and each of
\* the three ranks is at least 1; it is at most totalPlayers when the
\* selected player's identity occurs in the list and at most
\* totalPlayers + 1 when it does not.
C10_RanksWithinTotalIfListed ==
    Projected =>
       /\ whatIf.totalPlayers = Len(players)
       /\ RanksWithin(whatIf,
             IF InList(players, selectedPlayer)
             THEN whatIf.totalPlayers ELSE whatIf.totalPlayers + 1)

\* A listed selected player who drops to last place in the worst case.
C10_Witness ==
    /\ Projected
    /\ InList(players, selectedPlayer)
    /\ whatIf.totalPlayers = 2
    /\ whatIf.currentRank = 1
    /\ whatIf.worstCaseRank = whatIf.totalPlayers

\* C11: in every result bestCaseRank <= currentRank <= worstCaseRank.
C11_RankOrder ==
    Projected =>
       /\ whatIf.bestCaseRank <= whatIf.currentRank
       /\ whatIf.currentRank <= whatIf.worstCaseRank

\* A result whose three ranks all differ.
C11_Witness ==
    /\ Projected
    /\ whatIf.bestCaseRank < whatIf.currentRank
    /\ whatIf.currentRank < whatIf.worstCaseRank

\* The listed players whose identity is not the selected player's.
RestOf(ps, sel) == SelectSeq(ps, LAMBDA p : p.email # sel.email)

CountWhere(s, Test(_)) == Cardinality({ i \in 1..Len(s) : Test(s[i]) })

\* Selected 5, absent from the list [10, 8], one unresolved question.
ExampleGhost ==
    calculateWhatIf(player("ghost@test.com", 5),
        << player("other1@test.com", 10), player("other2@test.com", 8) >>,
        Arr(<< Unanswered("Yes") >>))

\* C12: the selected player's own list entry takes part in none of the three
\* comparisons, whatever its score, and every other listed player takes part
\* in all three; a selected player absent from the list is compared with
\* every listed player (5 against [10, 8] with one unresolved question gives
\* currentRank 3 and worstCaseRank 3).
C12_SelfExclusion ==
    /\ Projected =>
         LET rest == RestOf(players, selectedPlayer)
             pts  == whatIf.potentialPoints
             mine == selectedPlayer.score
         IN  /\ whatIf.bestCaseRank = 1 + CountWhere(rest, LAMBDA p : p.score > mine + pts)
             /\ whatIf.currentRank = 1 + CountWhere(rest, LAMBDA p : p.score > mine)
             /\ whatIf.worstCaseRank = 1 + CountWhere(rest, LAMBDA p : p.score + pts > mine)
             /\ (~InList(players, selectedPlayer) => rest = players)
    /\ ExampleGhost.currentRank = 3
    /\ ExampleGhost.worstCaseRank = 3

\* The selected player's own list entry holds a higher score than the
\* selected player passed in, and does not count.
C12_Witness ==
    /\ Projected
    /\ Len(players) = 2
    /\ \E i \in 1..2 : /\ players[i].email = selectedPlayer.email
                       /\ players[i].score > selectedPlayer.score
    /\ whatIf.currentRank = 1
    /\ whatIf.worstCaseRank = 2

-----------------------------------------------------------------------------
(* Properties of the hook.                                                 *)

Live(i) == sockets[i] \in {"CONNECTING", "OPEN"}

\* C13: after the view unmounts no reconnect timer is pending and no channel
\* is connecting or open (so none is opened afterwards), whatever the
\* channel's state was at unmount.
C13_NothingLeftAfterUnmount ==
    ~mounted => /\ timers = {}
                /\ \A i \in 1..Len(sockets) : ~Live(i)

\* Socket i gets its close event in this step.
ClosesInStep(i) == sockets[i] # "CLOSED" /\ sockets'[i] = "CLOSED"

\* C14: every closure of the channel while the view is mounted arms a timer
\* with the one fixed delay, however many sockets have been created before;
\* and, timers being fired, every such closure is followed by a new socket
\* unless the view unmounts first.
C14_FixedDelayReconnect ==
    /\ [](\A t \in timers : t.delay = ReconnectDelayMs)
    /\ [][\A i \in 1..Len(sockets) :
             (mounted /\ ClosesInStep(i)) =>
                \E t \in timers' : t \notin timers /\ t.delay = ReconnectDelayMs]_vars
    /\ \A n \in 1..(MaxCloses + 2) :
          [](mounted /\ lastOp = "close" /\ Len(sockets) = n
                => <>(Len(sockets) > n \/ ~mounted))

\* The third attempt, made after two closures.
C14_Witness ==
    /\ mounted
    /\ lastOp = "reconnect"
    /\ closes = 2
    /\ Len(sockets) = 3
    /\ sockets[3] = "CONNECTING"

-----------------------------------------------------------------------------
(* Properties of the update handler and of the initial fetch.              *)

\* A payload field that is there: neither missing nor null.
Present(v) == v # Undefined /\ v # Null

\* The step delivers the update message m on some open socket.
UpdateStep(m) == \E i \in 1..Len(sockets) : SocketMessage(i, JsonText(m))

FirstN(s, n) == [i \in 1..(IF Len(s) < n THEN Len(s) ELSE n) |-> s[i]]

\* C15 as stated: an update replaces players, questions, trends and events
\* by each payload field that is present and leaves the others unchanged.
C15_PresentFieldsReplace ==
    [][\A m \in UpdateMessages :
          (mounted /\ UpdateStep(m)) =>
             /\ players' = IF Present(m.scores) THEN m.scores.items ELSE players
             /\ questions' = IF Present(m.questions) THEN m.questions.items ELSE questions
             /\ trends' = IF Present(m.trends) THEN m.trends.entries ELSE trends
             /\ events' = IF Present(m.events) THEN m.events.items ELSE events]_vars

\* C15, amended: an update replaces players, questions and trends by each
\* of scores, questions and trends that is present, independently; a present,
\* non-empty events array is put in front of the events list, which is cut
\* to its first 20 entries; a field that is absent (or an empty events
\* array) leaves its state unchanged.
C15_FieldsReplaceEventsPrepend ==
    [][\A m \in UpdateMessages :
          (mounted /\ UpdateStep(m)) =>
             /\ players' = IF Present(m.scores) THEN m.scores.items ELSE players
             /\ questions' = IF Present(m.questions) THEN m.questions.items ELSE questions
             /\ trends' = IF Present(m.trends) THEN m.trends.entries ELSE trends
             /\ events' = IF Present(m.events) /\ m.events.items # <<>>
                          THEN FirstN(m.events.items \o events, 20)
                          ELSE events]_vars

\* After an update: the scores were replaced, the questions never touched,
\* and a batch of two events stands in front of the older ones, the list
\* cut to 20.
C15_Witness ==
    /\ lastOp = "update"
    /\ players = ScoresB
    /\ questions = <<>>
    /\ trends = TrendsA
    /\ events = << "e2", "e1" >> \o PriorFeed(18)

\* The text parses to an object whose type is not "update".
OtherType(text) ==
    /\ text.json
    /\ text.value # Null
    /\ text.value.type # Str("update")

\* C16: a message whose parsed type is not "update" changes none of players,
\* questions, trends, events, nor the connection state.
C16_OtherTypesIgnored ==
    [][\A text \in PushedTexts, i \in 1..Len(sockets) :
          (OtherType(text) /\ SocketMessage(i, text)) =>
             UNCHANGED <<players, questions, trends, events, isConnected,
                         sockets, wsRef, reconnectTimeoutRef, timers>>]_vars

\* A message of another type, carrying a full payload, was delivered on the
\* connected channel and none of its payload is in the state.
C16_Witness ==
    /\ lastOp = "ignored"
    /\ isConnected
    /\ players = ScoresA
    /\ questions = <<>>
    /\ events = <<>>

\* C17: a message that cannot be parsed changes none of players, questions,
\* trends, events and the error banner, closes no channel and arms no timer;
\* the channel stays open, and an update delivered next is applied.
C17_MalformedCaught ==
    /\ [][\A i \in 1..Len(sockets) :
             (SocketMessage(i, NotJson) \/ SocketMessage(i, JsonText(Null))) =>
                UNCHANGED <<players, questions, trends, events, error, isConnected,
                            sockets, wsRef, reconnectTimeoutRef, timers>>]_vars
    /\ [](lastOp = "malformed" => \E i \in 1..Len(sockets) : sockets[i] = "OPEN")
    /\ [][\A m \in PushedUpdates :
             (lastOp = "malformed" /\ mounted /\ UpdateStep(m) /\ Present(m.scores)) =>
                players' = m.scores.items]_vars

\* A malformed message was delivered: the data is intact, the channel is up.
C17_Witness ==
    /\ lastOp = "malformed"
    /\ mounted
    /\ isConnected
    /\ players = ScoresB
    /\ error = Null
    /\ timers = {}

\* What a snapshot writes: per field, whether it carries the field and the
\* value it writes.
carried(value) == [carried |-> TRUE, value |-> value]

NotCarried == [carried |-> FALSE]

PushWrites(m) ==
    [ players   |-> IF Present(m.scores) THEN carried(m.scores.items) ELSE NotCarried,
      questions |-> IF Present(m.questions) THEN carried(m.questions.items) ELSE NotCarried,
      trends    |-> IF Present(m.trends) THEN carried(m.trends.entries) ELSE NotCarried ]

FetchWrites(body) ==
    [ players   |-> carried(IF Present(body.scores) THEN body.scores.items ELSE <<>>),
      questions |-> carried(IF Present(body.questions) THEN body.questions.items ELSE <<>>),
      trends    |-> carried(IF Present(body.trends) THEN body.trends.entries ELSE {}) ]

\* Each field is afterwards what the snapshot wrote, whole, or what it was.
LastWriteWins(w) ==
    /\ players' = IF w.players.carried THEN w.players.value ELSE players
    /\ questions' = IF w.questions.carried THEN w.questions.value ELSE questions
    /\ trends' = IF w.trends.carried THEN w.trends.value ELSE trends

\* The initial fetch got an OK response with a JSON object as its body.
GoodResponse(r) ==
    /\ r.delivered
    /\ r.status \in 200..299
    /\ r.body.json
    /\ r.body.value # Null

\* C18: in any interleaving of the initial fetch and push updates, each of
\* players, questions and trends is what the snapshot processed last that
\* carried the field wrote: a step that processes a snapshot sets exactly
\* the fields it carries (a successful fetch all three, an empty default for
\* a missing one) and no other step changes them.
C18_LastWriteWinsPerField ==
    [][mounted =>
          /\ \A m \in PushedUpdates : UpdateStep(m) => LastWriteWins(PushWrites(m))
          /\ \A r \in FetchOutcomes :
                (GoodResponse(r) /\ LoadInitialDataSettles(r)) =>
                   LastWriteWins(FetchWrites(r.body.value))
          /\ lastOp' \notin {"update", "fetch-ok"} =>
                UNCHANGED <<players, questions, trends>>]_vars

\* The fetch settled after a push: it overwrote the pushed scores and
\* questions and wrote the default for the trends it did not carry.
C18_Witness ==
    /\ lastOp = "fetch-ok"
    /\ events # <<>>
    /\ players = ScoresA
    /\ questions = <<>>
    /\ trends = {}

\* The fetch was rejected or answered with a status that is not OK.
FailedResponse(r) == ~r.delivered \/ r.status \notin 200..299

\* C19: a failed initial fetch sets the error banner to "Failed to load
\* leaderboard data" and loading to false and leaves players, questions and
\* trends unchanged; a successful one clears the error and sets loading to
\* false; once settled, the fetch is not issued again.
C19_InitialFetchOutcome ==
    /\ [][\A r \in FetchOutcomes :
             (mounted /\ LoadInitialDataSettles(r)) =>
                /\ loading' = FALSE
                /\ FailedResponse(r) =>
                      /\ error' = Str("Failed to load leaderboard data")
                      /\ UNCHANGED <<players, questions, trends>>
                /\ GoodResponse(r) => error' = Null]_vars
    /\ [][fetchState # "pending" => fetchState' = fetchState]_vars

\* The fetch failed after a push: the banner is up, the pushed data stays.
C19_Witness ==
    /\ lastOp = "fetch-failed"
    /\ mounted
    /\ error = Str("Failed to load leaderboard data")
    /\ loading = FALSE
    /\ players = ScoresB
    /\ fetchState = "failed"

-----------------------------------------------------------------------------
(* Properties of the selection.                                            *)

\* What storage holds under "selectedEmail", read off the entries.
StoredSelection ==
    { e[2] : e \in { x \in localStorage : x[1] = "selectedEmail" } }

\* C20: across selections, clears and reloads the selected identity in
\* memory is the value stored under "selectedEmail": selecting e stores e,
\* clearing removes the key and selects nothing, a reload restores the
\* stored value, or nothing when the key is absent.
C20_SelectionPersisted ==
    /\ [](StoredSelection = IF selectedEmail = Null THEN {} ELSE {selectedEmail.val})
    /\ [][\A e \in SelectableEmails :
             HandlePlayerSelect(e) => selectedEmail' = e /\ StoredSelection' = {e.val}]_vars
    /\ [][HandleClearSelection => selectedEmail' = Null /\ StoredSelection' = {}]_vars
    /\ [][Reload => /\ UNCHANGED localStorage
                    /\ StoredSelection = {} => selectedEmail' = Null
                    /\ \A s \in StoredSelection : selectedEmail' = Str(s)]_vars

\* A reload restored the second identity.
C20_Witness ==
    /\ lastOp = "reload"
    /\ selectedEmail = Str(EmailNames[2])
    /\ StoredSelection = {EmailNames[2]}

-----------------------------------------------------------------------------
(* Properties of the answer lookups.                                       *)

\* The step settles the k-th lookup in flight with the response r.
Settles(k, r) == k \in 1..Len(answerRequests) /\ LoadAnswersSettles(k, r)

\* The responses with status 404, with and without a body.
NotFoundResponses ==
    { HttpResponse(404, NotJson) }
    \cup { HttpResponse(404, JsonText([answers |-> AnswersOf(e)])) : e \in SelectableEmails }

\* C21: an answers lookup answered with HTTP 404 resolves to "no answers":
\* myAnswers becomes null, answersLoading returns to false, the lookup does
\* not take the failure path and the error state is not set.
C21_NotFoundIsNoAnswers ==
    [][\A k \in 1..MaxInFlight, r \in NotFoundResponses :
          (mounted /\ Settles(k, r)) =>
             /\ myAnswers' = Null
             /\ answersLoading' = FALSE
             /\ lastOp' = "answers-not-found"
             /\ error' = error
             /\ error' = Null]_vars

\* A 404 settled the lookup of the selected player.
C21_Witness ==
    /\ lastOp = "answers-not-found"
    /\ mounted
    /\ selectedEmail = Str(EmailNames[1])
    /\ myAnswers = Null
    /\ answersLoading = FALSE
    /\ answerRequests = <<>>
    /\ error = Null

-----------------------------------------------------------------------------
(* Properties of the two functions as functions.                           *)

\* A Map from scores to {rank, tieCount}: no key twice, positive numbers.
IsRankMap(m) ==
    /\ \A i, j \in 1..Len(m) : m[i].key = m[j].key => i = j
    /\ \A i \in 1..Len(m) :
          /\ m[i].key \in Int
          /\ DOMAIN m[i].value = {"rank", "tieCount"}
          /\ m[i].value.rank \in Nat \ {0}
          /\ m[i].value.tieCount \in Nat \ {0}

WhatIfFields ==
    { "unansweredCount", "potentialPoints", "currentScore", "bestCaseScore",
      "worstCaseScore", "currentRank", "bestCaseRank", "worstCaseRank", "totalPlayers" }

\* A result with every field, each a number.
IsCompleteWhatIf(w) ==
    /\ DOMAIN w = WhatIfFields
    /\ \A f \in WhatIfFields : w[f] \in Int

\* C22: on every player list (the empty one too), every selected player (an
\* absent one too) and every answers value (null or a list of records),
\* computeRanks returns a map and calculateWhatIf returns null or a complete
\* result; neither throws.
C22_TotalOnValidInput ==
    /\ pc \in {"ranked", "ranked again"} => IsRankMap(rankMap)
    /\ pc \in {"projected", "projected again"} =>
          /\ whatIf # TypeError
          /\ whatIf = Null \/ IsCompleteWhatIf(whatIf)

\* The call with a list and answers but no selected player.
C22_Witness ==
    /\ pc = "projected"
    /\ selectedPlayer = Null
    /\ Len(players) = MaxPlayers
    /\ myAnswers # Null
    /\ Len(myAnswers.items) = MaxAnswers
    /\ whatIf = Null

-----------------------------------------------------------------------------
(* Properties of the channel when the connection effect is run again.      *)

LiveSockets == { i \in 1..Len(sockets) : Live(i) }

\* C24: while the view is mounted at most one channel is connecting or
\* open, across closures, reconnect timers and re-runs of the connection
\* effect.
C24_AtMostOneLiveChannel == mounted => Cardinality(LiveSockets) <= 1

\* C26: in every state of a mounted view isConnected is true exactly when
\* the hook's current channel is open.
C26_IndicatorAccurate ==
    mounted => (isConnected <=> (wsRef # 0 /\ sockets[wsRef] = "OPEN"))

\* C25: whenever myAnswers is not null it is the answer list of the player
\* selected now, whatever the order of selections, clears and responses.
C25_AnswersOfSelectedPlayer ==
    (mounted /\ myAnswers # Null) =>
        /\ selectedEmail # Null
        /\ myAnswers = AnswersOf(selectedEmail)

-----------------------------------------------------------------------------
(* Properties of a render.                                                 *)

\* C27: for a selected player taken from a non-empty list with unique
\* identities and answers with at least one unresolved record (the inputs
\* for which the projector returns a result), the projector's currentRank
\* is the rank computeRanks gives the selected player's score.
C27_RankComputationsAgree ==
    (pc = "rendered" /\ whatIf # Null) =>
        /\ Truthy(selectedPlayer)
        /\ MapHas(rankMap, selectedPlayer.score)
        /\ whatIf.currentRank = SelectedRankInfo(rankMap, selectedPlayer).rank

\* The selected player stands behind two players tied for the lead and a
\* third alone in the next score group: both computations give rank 4,
\* where numbering the groups would give 3.
C27_Witness ==
    /\ pc = "rendered"
    /\ whatIf # Null
    /\ Len(players) = 4
    /\ selectedPlayer = players[3]
    /\ players[1].score = players[4].score
    /\ players[1].score > players[2].score
    /\ players[2].score > selectedPlayer.score
    /\ Len(rankMap) = 3
    /\ whatIf.currentRank = 4
    /\ SelectedRankInfo(rankMap, selectedPlayer).rank = 4

-----------------------------------------------------------------------------
(* Properties of the activity feed.                                        *)

\* C28: after any sequence of updates the events list has at most 20
\* entries, newest batch first: an update with a non-empty events array
\* puts it in front of the list and cuts the result to its first 20 entries;
\* an update with no events or an empty array leaves the list as it was.
C28_FeedNewestFirstAtMost20 ==
    /\ [](Len(events) <= 20)
    /\ [][\A b \in FeedBatches :
             SocketMessage(1, JsonText(EventsUpdate(b))) =>
                IF b = <<>>
                THEN events' = events
                ELSE /\ Len(events') = (IF Len(b) + Len(events) < 20
                                        THEN Len(b) + Len(events) ELSE 20)
                     /\ \A i \in 1..Len(events') :
                           events'[i] = IF i <= Len(b) THEN b[i] ELSE events[i - Len(b)]]_vars
    /\ [][SocketMessage(1, JsonText(EmptyUpdate)) => events' = events]_vars

\* A full feed whose oldest batch has been cut in half by the newest.
C28_Witness ==
    /\ lastOp = "update"
    /\ Len(events) = 20
    /\ events[1] = "e2"
    /\ events[2] = "e1"
    /\ events[19] = "e1"
    /\ events[20] = "e2"

-----------------------------------------------------------------------------
(* Properties of useAuth.                                                  *)

\* The mount effect runs checkSession() in this step.
ChecksSession ==
    /\ authPc = "mounted"
    /\ authPc' \in {"done", "threw"}

\* Storage holds both an ID token and a user.
BothStored ==
    /\ authStorage[STORAGE_KEYS.ID_TOKEN] \notin {Null, Str("")}
    /\ authStorage[STORAGE_KEYS.USER] \notin {Null, Str("")}

\* The stored ID token has a payload whose exp is later than the clock.
StoredTokenLive ==
    LET token == authStorage[STORAGE_KEYS.ID_TOKEN]
    IN  /\ token.kind = "jwt"
        /\ Len(token.segments) >= 2
        /\ ~JSONParse(token.segments[2]).threw
        /\ LET payload == JSONParse(token.segments[2]).value
           IN  /\ payload # Null
               /\ payload.exp # Undefined
               /\ payload.exp.val * 1000 > now

SessionCheckApartFromParseError ==
    [][ChecksSession =>
          /\ (isLoading' # FALSE =>
                 /\ BothStored /\ StoredTokenLive
                 /\ JSONParse(authStorage[STORAGE_KEYS.USER]).threw
                 /\ authUser' = Null
                 /\ authStorage' = authStorage)
          /\ (authUser' # Null => BothStored /\ StoredTokenLive)
          /\ (BothStored /\ ~StoredTokenLive =>
                 /\ \A k \in AuthKeys : authStorage'[k] = Null
                 /\ authUser' = Null)]_vars

\* The awaited exchange ends in this step.
ExchangeEnds ==
    /\ authPc = "exchanging"
    /\ authPc' = "done"

\* C30: when the page loads with a code and a stored verifier, the verifier
\* is removed and isLoading becomes false whether the exchange succeeds or
\* fails; if it fails the user stays null, the error is set, and no access
\* token, ID token or user is left in storage.
C30_FailedExchangeLeavesNothing ==
    [][ExchangeEnds =>
          /\ authStorage'[STORAGE_KEYS.CODE_VERIFIER] = Null
          /\ isLoading' = FALSE
          /\ (lastOp' = "exchange-failed" =>
                 /\ authUser' = Null
                 /\ authError' # Null
                 /\ authStorage'[STORAGE_KEYS.ACCESS_TOKEN] = Null
                 /\ authStorage'[STORAGE_KEYS.ID_TOKEN] = Null
                 /\ authStorage'[STORAGE_KEYS.USER] = Null)]_vars

====
